---- MODULE Spec2Model ----
(***************************************************************************)
(* Model of the attendance reconciliation and update engine:               *)
(*   - time utilities            (lib/utils/time)                          *)
(*   - bulk update handler       (api/attendance/[employeeId]/bulk)        *)
(*   - bulk delete handler       (api/attendance/[employeeId]/delete)      *)
(*   - day alignment             (lib/utils/comparison)                    *)
(*   - spreadsheet cell decoding (lib/utils/time, formatTimeValue)         *)
(*   - comparison table          (components/timesheet/comparison-table,   *)
(*                                editable-time-cell) with the page that   *)
(*                                renders it and the SWR cache of its data *)
(*   - comparison route          (api/comparison/[employeeId]): date       *)
(*                                bounds, query range, errors              *)
(*   - spreadsheet import store  (lib/xlsx/store, lib/db/xlsx-store-db):   *)
(*                                the import document, its cache and the   *)
(*                                suspect days                             *)
(*   - concurrent bulk requests  over one attendance collection            *)
(*                                                                         *)
(* Time is counted in minutes.  Minute 0 is 2026-01-01T00:00Z.  JavaScript *)
(* Date objects built from local calendar fields (date-fns parse,          *)
(* setHours) are modelled by their wall-clock minute; the server's local   *)
(* zone is taken to be UTC.  Strings that the code parses character by     *)
(* character (HH:mm times) are sequences of one-character strings.         *)
(* Timestamps createdAt/updatedAt and the flags isActive, isNightWork and  *)
(* forgotToCheckOut are not modelled.  In the table model the calendar     *)
(* popover, the suspect-day marks and the confirm dialogs are not          *)
(* modelled, and the comparison of a key is the same each time it is       *)
(* fetched.  In the import store model a document is known by the upload it*)
(* came from, by updatedEmployees and by suspectDays; the employees and the*)
(* date range it carries are not modelled.                                 *)
(***************************************************************************)
EXTENDS Integers, Sequences, FiniteSets, TLC

\* ------------------------------------------------------------------ bounds
MaxOps == 3        \* batch entries processed in one run of the model
MaxBatch == 3      \* entries in one batch
MaxFail == 1       \* store operations that fail in one run of the model
MaxDay == 2        \* last calendar day (index) a comparison interval may end on
MaxCell == 96      \* largest numeric cell value, in 64ths of a day
MaxEdits == 2      \* reviewer actions on the comparison table in one run
MaxNavs == 2       \* employee and filter changes in one run

\* --------------------------------------------------------------- constants
MinutesPerDay == 1440
DubaiOffset == 240                 \* Asia/Dubai is UTC+4, no DST
\* 1970-01-01T00:00Z: 20454 days before 2026-01-01
UnixEpoch == 0 - 20454 * MinutesPerDay

\* ------------------------------------------------------- JavaScript values
\* Date | Invalid Date | null, and the outcome "the call threw"
NullDate == [tag |-> "null", t |-> 0]
InvalidDate == [tag |-> "invalid", t |-> 0]
Thrown == [tag |-> "throw", t |-> 0]
DateAt(t) == [tag |-> "date", t |-> t]
IsDate(d) == d.tag = "date"
\* JavaScript truthiness of a Date | null value: every object is truthy
Truthy(d) == d.tag # "null"

\* number | NaN
NaN == [nan |-> TRUE, v |-> 0]
Num(v) == [nan |-> FALSE, v |-> v]

\* ----------------------------------------------------------------- strings
DigitChars == {"0", "1", "2", "3", "4", "5", "6", "7", "8", "9"}
DigitVal(c) ==
  CASE c = "0" -> 0 [] c = "1" -> 1 [] c = "2" -> 2 [] c = "3" -> 3
    [] c = "4" -> 4 [] c = "5" -> 5 [] c = "6" -> 6 [] c = "7" -> 7
    [] c = "8" -> 8 [] c = "9" -> 9

AllDigits(s) == \A i \in 1..Len(s) : s[i] \in DigitChars

RECURSIVE DecVal(_)
DecVal(s) ==
  IF Len(s) = 0 THEN 0
  ELSE DecVal(SubSeq(s, 1, Len(s) - 1)) * 10 + DigitVal(s[Len(s)])

\* parseInt(s, 10): the value of the leading digits, NaN when there is none
parseInt(s) ==
  LET n == CHOOSE k \in 0..Len(s) :
             /\ \A j \in 1..k : s[j] \in DigitChars
             /\ (k < Len(s) => s[k + 1] \notin DigitChars)
  IN IF n = 0 THEN NaN ELSE Num(DecVal(SubSeq(s, 1, n)))

DigitChar(n) ==
  CASE n = 0 -> "0" [] n = 1 -> "1" [] n = 2 -> "2" [] n = 3 -> "3"
    [] n = 4 -> "4" [] n = 5 -> "5" [] n = 6 -> "6" [] n = 7 -> "7"
    [] n = 8 -> "8" [] n = 9 -> "9"

\* n.toString() of a non-negative integer
RECURSIVE toString(_)
toString(n) ==
  IF n < 10 THEN <<DigitChar(n)>> ELSE toString(n \div 10) \o <<DigitChar(n % 10)>>

\* s.padStart(2, "0")
padStart2(s) == IF Len(s) < 2 THEN <<"0">> \o s ELSE s

\* Number(s): "" is 0, a digit string is its value, anything else is NaN
Number(s) == IF AllDigits(s) THEN Num(DecVal(s)) ELSE NaN

\* s.split(":")
RECURSIVE Split(_)
Split(s) ==
  IF \E i \in 1..Len(s) : s[i] = ":"
  THEN LET i == CHOOSE k \in 1..Len(s) :
                  s[k] = ":" /\ \A j \in 1..(k - 1) : s[j] # ":"
       IN <<SubSeq(s, 1, i - 1)>> \o Split(SubSeq(s, i + 1, Len(s)))
  ELSE <<s>>

\* /^(\d{1,2}):(\d{2})$/ : the two captured groups, or <<>> when no match
timeRegex(s) ==
  LET parts == Split(s)
  IN IF /\ Len(parts) = 2
        /\ Len(parts[1]) \in {1, 2} /\ AllDigits(parts[1])
        /\ Len(parts[2]) = 2 /\ AllDigits(parts[2])
     THEN parts
     ELSE <<>>

\* The absent / null / empty time string (all falsy in JavaScript)
NoTime == <<>>

\* ------------------------------------------------------------------- dates
\* dd/MM/yyyy strings of the calendar days 0, 1, 2, ... of the model
DateStrings ==
  << "01/01/2026", "02/01/2026", "03/01/2026", "04/01/2026", "05/01/2026",
     "06/01/2026", "07/01/2026", "08/01/2026" >>

DayIndex(s) == CHOOSE i \in 1..Len(DateStrings) : DateStrings[i] = s

\* parse(dateStr, "dd/MM/yyyy", new Date()): local midnight of the date, or
\* Invalid Date when the string does not match; parse does not throw for a
\* string argument, so the catch branch (null) is never taken.
parseDateString(dateStr) ==
  IF \E i \in 1..Len(DateStrings) : DateStrings[i] = dateStr
  THEN DateAt((DayIndex(dateStr) - 1) * MinutesPerDay)
  ELSE InvalidDate

\* calendar day index of an instant (floor division)
DayOf(t) == t \div MinutesPerDay

\* format(date, "dd/MM/yyyy")
formatDateString(date) == DateStrings[DayOf(date.t) + 1]

\* Date.UTC(d.getFullYear(), d.getMonth(), d.getDate(), 0, 0, 0, 0)
DayStartUTC(d) ==
  IF IsDate(d) THEN DateAt(DayOf(d.t) * MinutesPerDay) ELSE InvalidDate

\* Date.UTC(d.getFullYear(), d.getMonth(), d.getDate(), 23, 59, 59, 999)
DayEndUTC(d) ==
  IF IsDate(d) THEN DateAt(DayOf(d.t) * MinutesPerDay + MinutesPerDay - 1)
  ELSE InvalidDate

\* BSON serialisation of a Date: the driver writes Long.fromNumber(getTime()),
\* and Long.fromNumber(NaN) is 0, so an Invalid Date is stored as 1970-01-01.
BsonDate(d) ==
  CASE d.tag = "null" -> NullDate
    [] d.tag = "invalid" -> DateAt(UnixEpoch)
    [] OTHER -> d

\* date.setHours(hours, minutes, 0, 0) on a copy of date
setHours(date, hours, minutes) ==
  IF IsDate(date) /\ ~hours.nan /\ ~minutes.nan
  THEN DateAt(DayOf(date.t) * MinutesPerDay + hours.v * 60 + minutes.v)
  ELSE InvalidDate

\* fromZonedTime(d, "Asia/Dubai"): the wall-clock fields of d read as Dubai
\* time.  For an Invalid Date the library either returns an Invalid Date or
\* throws RangeError from Intl.DateTimeFormat, depending on its version.
fromZonedTime(d) ==
  IF IsDate(d) THEN {DateAt(d.t - DubaiOffset)} ELSE {InvalidDate, Thrown}

\* dubaiTimeToUTC(date, time): the set of possible outcomes
dubaiTimeToUTC(date, time) ==
  LET parts == Split(time)
      hours == Number(parts[1])
      minutes == IF Len(parts) >= 2 THEN Number(parts[2]) ELSE NaN
  IN fromZonedTime(setHours(date, hours, minutes))

\* the null string
NoDate == ""

\* format(toZonedTime(d, "Asia/Dubai"), "HH:mm")
utcToDubaiTime(utcDate) ==
  IF ~IsDate(utcDate) THEN NoTime
  ELSE LET m == (utcDate.t + DubaiOffset) % MinutesPerDay
       IN padStart2(toString(m \div 60)) \o <<":">> \o padStart2(toString(m % 60))

\* format(toZonedTime(d, "Asia/Dubai"), "dd/MM/yyyy")
utcToDubaiDate(utcDate) ==
  IF ~IsDate(utcDate) THEN NoDate
  ELSE DateStrings[DayOf(utcDate.t + DubaiOffset) + 1]

\* a spreadsheet cell as the sheet reader hands it over: a number (num / den,
\* a fraction of a day), a string, or nothing (undefined, null)
NumberCell(num, den) == [kind |-> "number", num |-> num, den |-> den, s |-> <<>>]
StringCell(s) == [kind |-> "string", num |-> 0, den |-> 1, s |-> s]
EmptyCell == [kind |-> "empty", num |-> 0, den |-> 1, s |-> <<>>]

\* Math.round(num / den * 24 * 60): the nearest integer, a half rounds up
RoundMinutes(num, den) == (2 * num * 24 * 60 + den) \div (2 * den)

\* `${hours.toString().padStart(2, "0")}:${minutes.toString().padStart(2, "0")}`
HoursMinutes(totalMinutes) ==
  padStart2(toString(totalMinutes \div 60)) \o <<":">>
    \o padStart2(toString(totalMinutes % 60))

\* excelTimeToString(value) for value = num / den >= 0
excelTimeToString(num, den) == HoursMinutes(RoundMinutes(num, den))

\* s.trim()
RECURSIVE Trim(_)
Trim(s) ==
  IF Len(s) > 0 /\ s[1] = " " THEN Trim(Tail(s))
  ELSE IF Len(s) > 0 /\ s[Len(s)] = " " THEN Trim(SubSeq(s, 1, Len(s) - 1))
  ELSE s

\* String(value) of a number cell that is a whole number
StringOfWhole(num, den) ==
  IF num < 0 THEN <<"-">> \o toString((0 - num) \div den) ELSE toString(num \div den)

\* formatTimeValue with the hours of a value >= 1 taken modulo 24
formatTimeValueWallClock(value) ==
  IF value.kind = "empty" THEN NoTime
  ELSE IF value.kind = "string" /\ value.s \in {<<>>, <<"-", "-">>} THEN NoTime
  ELSE IF value.kind = "number" /\ value.num >= 0
  THEN HoursMinutes(RoundMinutes(value.num, value.den) % (24 * 60))
  ELSE IF value.kind = "number" THEN StringOfWhole(value.num, value.den)
  ELSE Trim(value.s)

\* formatTimeValue(value); null is the empty string NoTime.  A string that
\* matches /^\d{1,2}:\d{2}$/ and one that does not are both returned trimmed.
formatTimeValue(value) ==
  IF value.kind = "empty" THEN NoTime
  ELSE IF value.kind = "string" /\ value.s \in {<<>>, <<"-", "-">>} THEN NoTime
  ELSE IF value.kind = "number" /\ value.num >= 0 /\ value.num < value.den
  THEN excelTimeToString(value.num, value.den)
  ELSE IF value.kind = "number" /\ value.num >= value.den
  THEN HoursMinutes(RoundMinutes(value.num, value.den))
  ELSE IF value.kind = "number" THEN StringOfWhole(value.num, value.den)
  ELSE Trim(value.s)

\* secondsToHoursMinutes(seconds)
secondsToHoursMinutes(seconds) ==
  padStart2(toString(seconds \div 3600)) \o <<":">>
    \o padStart2(toString((seconds % 3600) \div 60))

\* timeStringToHours(time), counted in minutes (hours * 60 + minutes)
timeStringToHours(time) ==
  IF time = NoTime THEN Num(0)
  ELSE LET parts == Split(time)
       IN IF Len(parts) # 2 THEN Num(0)
          ELSE LET hours == parseInt(parts[1])
                   minutes == parseInt(parts[2])
               IN IF hours.nan \/ minutes.nan THEN NaN
                  ELSE Num(hours.v * 60 + minutes.v)

\* timeToMinutes(time)
timeToMinutes(time) ==
  LET match == timeRegex(time)
  IN IF match = <<>> THEN 0
     ELSE parseInt(match[1]).v * 60 + parseInt(match[2]).v

\* detectCheckoutDate with a strict comparison: equal times stay on the row date
detectCheckoutDateStrict(rowDate, checkInTime, checkOutTime) ==
  IF checkInTime = NoTime \/ checkOutTime = NoTime THEN rowDate
  ELSE IF timeToMinutes(checkOutTime) < timeToMinutes(checkInTime)
  THEN LET date == parseDateString(rowDate)
       IN IF ~Truthy(date) THEN rowDate
          ELSE IF ~IsDate(date) THEN "RangeError"
          ELSE formatDateString(DateAt(date.t + 24 * 60))
  ELSE rowDate

\* detectCheckoutDate(rowDate, checkInTime, checkOutTime); format() of an
\* Invalid Date throws RangeError
detectCheckoutDate(rowDate, checkInTime, checkOutTime) ==
  IF checkInTime = NoTime \/ checkOutTime = NoTime THEN rowDate
  ELSE IF timeToMinutes(checkOutTime) <= timeToMinutes(checkInTime)
  THEN LET date == parseDateString(rowDate)
       IN IF ~Truthy(date) THEN rowDate
          ELSE IF ~IsDate(date) THEN "RangeError"
          ELSE formatDateString(DateAt(date.t + 24 * 60))
  ELSE rowDate

\* parseDateTimeString(dateStr, timeStr): null when the time does not match
\* /^(\d{1,2}):(\d{2})$/; the hour and minute are not range-checked
parseDateTimeString(dateStr, timeStr) ==
  LET date == parseDateString(dateStr)
      match == timeRegex(timeStr)
  IN IF ~Truthy(date) THEN NullDate
     ELSE IF match = <<>> THEN NullDate
     ELSE setHours(date, parseInt(match[1]), parseInt(match[2]))

\* the text of `${NaN}:${NaN}`
NaNText == <<"N", "a", "N", ":", "N", "a", "N">>

\* calculateNetHours (deprecated): times of day only, a negative difference
\* wrapped by 24 hours
calculateNetHours(checkInDate, checkInTime, checkOutDate, checkOutTime) ==
  IF checkInTime = NoTime \/ checkOutTime = NoTime THEN NoTime
  ELSE IF timeRegex(checkInTime) = <<>> \/ timeRegex(checkOutTime) = <<>> THEN NoTime
  ELSE LET diffMinutes == timeToMinutes(checkOutTime) - timeToMinutes(checkInTime)
       IN HoursMinutes(IF diffMinutes < 0 THEN diffMinutes + 24 * 60 ELSE diffMinutes)

\* calculateNetHoursWithDates(checkInDate, checkInTime, checkOutDate,
\* checkOutTime); null is NoTime.  With an Invalid Date the difference is NaN,
\* which is not < 0.
calculateNetHoursWithDates(checkInDate, checkInTime, checkOutDate, checkOutTime) ==
  IF checkInTime = NoTime \/ checkOutTime = NoTime THEN NoTime
  ELSE LET checkIn == parseDateTimeString(checkInDate, checkInTime)
           checkOut == parseDateTimeString(checkOutDate, checkOutTime)
       IN IF ~Truthy(checkIn) \/ ~Truthy(checkOut) THEN NoTime
          ELSE IF ~IsDate(checkIn) \/ ~IsDate(checkOut) THEN NaNText
          ELSE IF checkOut.t - checkIn.t < 0 THEN NoTime
          ELSE HoursMinutes(checkOut.t - checkIn.t)

\* ------------------------------------------------------ attendance records
NoLocation == "none"
NoType == "none"

Period(startTime, endTime, checkoutType, checkInLocation, checkOutLocation) ==
  [ startTime |-> startTime, endTime |-> endTime, checkoutType |-> checkoutType,
    checkInLocation |-> checkInLocation, checkOutLocation |-> checkOutLocation ]

\* AttendanceDayDocument: day is an instant; intervals is the legacy list of
\* instants, present only when hasIntervals
AttendanceDay(id, user, day, periods, hasIntervals, intervals, totalSeconds) ==
  [ id |-> id, user |-> user, day |-> day, periods |-> periods,
    hasIntervals |-> hasIntervals, intervals |-> intervals,
    totalSeconds |-> totalSeconds ]

\* users collection: employeeId -> _id
Users == [e \in {"E1", "E2"} |-> IF e = "E1" THEN "U1" ELSE "U2"]

\* users.findOne({ employeeId })
findUserByEmployeeId(employeeId) ==
  IF employeeId \in DOMAIN Users THEN Users[employeeId] ELSE "none"

\* ------------------------------------------------------------------ inputs
D1 == DateStrings[1]
D2 == DateStrings[2]
D3 == DateStrings[3]
BadDate == "2026-01-01"

T0800 == <<"0", "8", ":", "0", "0">>
T1700 == <<"1", "7", ":", "0", "0">>
T2350 == <<"2", "3", ":", "5", "0">>
T0010 == <<"0", "0", ":", "1", "0">>
T2500 == <<"2", "5", ":", "0", "0">>
TBad == <<"x", "x">>

DayUpdate(date, checkInDate, checkInTime, checkOutDate, checkOutTime) ==
  [ date |-> date, checkInDate |-> checkInDate, checkInTime |-> checkInTime,
    checkOutDate |-> checkOutDate, checkOutTime |-> checkOutTime ]

\* the update entries a batch is drawn from
UpdateEntries ==
  { DayUpdate(D1, D1, T0800, D1, T1700),        \* day shift, 9 hours
    DayUpdate(D1, D1, T2350, D2, T0010),        \* overnight, check-out next day
    DayUpdate(D1, D1, T1700, D1, T0800),        \* check-out before check-in
    DayUpdate(D1, D1, NoTime, D1, T1700),       \* no check-in
    DayUpdate(D2, D2, T0800, D2, NoTime),       \* no check-out
    DayUpdate(D2, D2, NoTime, D2, NoTime),      \* no time at all
    DayUpdate(D2, D1, T2350, D2, T1700),        \* check-in on the day before
    DayUpdate(D2, D2, TBad, D2, T1700),         \* malformed time
    DayUpdate(D1, D1, T0800, D1, T2500),        \* check-out hour above 23
    DayUpdate(D1, BadDate, T0800, D1, T1700),   \* malformed check-in date
    DayUpdate(BadDate, D1, T0800, D1, T1700) }  \* malformed row date

\* the row dates a delete batch is drawn from
DeleteDates == {D1, D2, BadDate}

\* the employee ids a request may name ("E9" is in no directory)
RequestEmployees == {"E1", "E9"}

\* records the origin system may have left for employee E1 on day D1
LegacyShapes ==
  { <<>>,
    << AttendanceDay(1, "U1", 0,
         << Period(DateAt(300), DateAt(800), "auto", "locS", "locT") >>,
         FALSE, <<>>, Num(30000)) >>,
    << AttendanceDay(1, "U1", 0,
         << Period(DateAt(300), DateAt(500), "manual", "locA", "locX"),
            Period(DateAt(600), DateAt(800), "auto", "locY", "locB") >>,
         FALSE, <<>>, Num(24000)) >>,
    << AttendanceDay(1, "U1", 0,
         << Period(DateAt(300), DateAt(500), "auto", NoLocation, "locX"),
            Period(DateAt(600), NullDate, NoType, "locY", NoLocation) >>,
         FALSE, <<>>, Num(12000)) >>,
    << AttendanceDay(1, "U1", 0, <<>>, TRUE, <<300, 500, 600, 800>>,
         Num(24000)) >> }

\* the record of the other employee, E2, on day D1
OtherRecord ==
  AttendanceDay(2, "U2", 0,
    << Period(DateAt(240), DateAt(780), "manual", "locC", "locC") >>,
    FALSE, <<>>, Num(32400))

FirstFreeId == OtherRecord.id + 1

\* ------------------------------------------------------------ day alignment
LOW_HOURS_MIN == 3
LOW_HOURS_MAX == 4

\* TimeEntry: the fields of a spreadsheet row that the comparison reads
TimeEntry(date, in1, out2, netWorkHours) ==
  [date |-> date, in1 |-> in1, out2 |-> out2, netWorkHours |-> netWorkHours]

\* EmployeeXlsxData | null
NoXlsx == [present |-> FALSE, entries |-> <<>>]
XlsxData(entries) == [present |-> TRUE, entries |-> entries]

\* extractXlsxData(entry)
extractXlsxData(entry) ==
  [ in1 |-> entry.in1, in1Date |-> entry.date, out2 |-> entry.out2,
    out2Date |-> detectCheckoutDate(entry.date, entry.in1, entry.out2),
    netWorkHours |-> entry.netWorkHours ]

\* the XlsxDayData of a day without spreadsheet entry
EmptyXlsxDay(dateKey) ==
  [ in1 |-> NoTime, in1Date |-> dateKey, out2 |-> NoTime, out2Date |-> dateKey,
    netWorkHours |-> NoTime ]

\* extractMongoData(undefined)
EmptyMongoDay ==
  [ firstCheckIn |-> NoTime, firstCheckInDate |-> NoDate, lastCheckOut |-> NoTime,
    lastCheckOutDate |-> NoDate, totalHours |-> NoTime ]

\* extractMongoData(record)
extractMongoData(record) ==
  LET periods == record.periods
      n == Len(periods)
      intervals == record.intervals
      k == Len(intervals)
      fromPeriodIn == n > 0 /\ Truthy(periods[1].startTime)
      fromPeriodOut == n > 0 /\ Truthy(periods[n].endTime)
      firstCheckIn ==
        IF fromPeriodIn THEN utcToDubaiTime(periods[1].startTime) ELSE NoTime
      lastCheckOut ==
        IF fromPeriodOut THEN utcToDubaiTime(periods[n].endTime) ELSE NoTime
      inFallback == firstCheckIn = NoTime /\ record.hasIntervals /\ k > 0
      outFallback == lastCheckOut = NoTime /\ record.hasIntervals /\ k > 1
  IN [ firstCheckIn |->
         IF inFallback THEN utcToDubaiTime(DateAt(intervals[1])) ELSE firstCheckIn,
       firstCheckInDate |->
         IF inFallback THEN utcToDubaiDate(DateAt(intervals[1]))
         ELSE IF fromPeriodIn THEN utcToDubaiDate(periods[1].startTime)
         ELSE NoDate,
       lastCheckOut |->
         IF outFallback THEN utcToDubaiTime(DateAt(intervals[k])) ELSE lastCheckOut,
       lastCheckOutDate |->
         IF outFallback THEN utcToDubaiDate(DateAt(intervals[k]))
         ELSE IF fromPeriodOut THEN utcToDubaiDate(periods[n].endTime)
         ELSE NoDate,
       totalHours |->
         IF ~record.totalSeconds.nan /\ record.totalSeconds.v > 0
         THEN secondsToHoursMinutes(record.totalSeconds.v) ELSE NoTime ]

\* detectDiscrepancies with the upper threshold of lowHours included
detectDiscrepanciesInclusive(xlsx, mongo) ==
  LET totalHours == timeStringToHours(xlsx.netWorkHours)
  IN [ in1Missing |-> xlsx.in1 # NoTime /\ mongo.firstCheckIn = NoTime,
       out2Missing |-> xlsx.out2 # NoTime /\ mongo.lastCheckOut = NoTime,
       lowHours |->
         /\ xlsx.netWorkHours # NoTime
         /\ ~totalHours.nan
         /\ totalHours.v > 0
         /\ totalHours.v >= LOW_HOURS_MIN * 60
         /\ totalHours.v <= LOW_HOURS_MAX * 60 ]

\* detectDiscrepancies(xlsx, mongo)
detectDiscrepancies(xlsx, mongo) ==
  LET totalHours == timeStringToHours(xlsx.netWorkHours)
  IN [ in1Missing |-> xlsx.in1 # NoTime /\ mongo.firstCheckIn = NoTime,
       out2Missing |-> xlsx.out2 # NoTime /\ mongo.lastCheckOut = NoTime,
       lowHours |->
         /\ xlsx.netWorkHours # NoTime
         /\ ~totalHours.nan
         /\ totalHours.v > 0
         /\ totalHours.v >= LOW_HOURS_MIN * 60
         /\ totalHours.v < LOW_HOURS_MAX * 60 ]

\* generateIssues with the low-hours issue pushed first
generateIssuesLowHoursFirst(discrepancies) ==
  (IF discrepancies.lowHours
   THEN <<"Net work hours between 3-4 hours - verify with MongoDB">> ELSE <<>>)
  \o (IF discrepancies.in1Missing
      THEN <<"XLSX has check-in but MongoDB is missing">> ELSE <<>>)
  \o (IF discrepancies.out2Missing
      THEN <<"XLSX has check-out but MongoDB is missing">> ELSE <<>>)

\* generateIssues(discrepancies)
generateIssues(discrepancies) ==
  (IF discrepancies.in1Missing
   THEN <<"XLSX has check-in but MongoDB is missing">> ELSE <<>>)
  \o (IF discrepancies.out2Missing
      THEN <<"XLSX has check-out but MongoDB is missing">> ELSE <<>>)
  \o (IF discrepancies.lowHours
      THEN <<"Net work hours between 3-4 hours - verify with MongoDB">> ELSE <<>>)

DayComparison(date, xlsx, mongo, discrepancies, issues, source) ==
  [ date |-> date, xlsx |-> xlsx, mongo |-> mongo, discrepancies |-> discrepancies,
    issues |-> issues, selection |-> [checkIn |-> source, checkOut |-> source] ]

\* createEmptyDayComparison(date)
createEmptyDayComparison(date) ==
  DayComparison(formatDateString(date), EmptyXlsxDay(formatDateString(date)),
    EmptyMongoDay,
    [in1Missing |-> FALSE, out2Missing |-> FALSE, lowHours |-> FALSE], <<>>, "xlsx")

\* the loop of eachDayOfInterval: while (currentDate.getTime() <= endTime)
RECURSIVE DaysUpTo(_, _)
DaysUpTo(cur, endTime) ==
  IF cur <= endTime THEN <<DateAt(cur)>> \o DaysUpTo(cur + MinutesPerDay, endTime)
  ELSE <<>>

\* eachDayOfInterval leaving out a last day that starts exactly at end
eachDayOfIntervalExclusive(start, end) ==
  DaysUpTo(DayOf(start.t) * MinutesPerDay, end.t - 1)

\* eachDayOfInterval({ start, end }): start is set to the start of its day
eachDayOfInterval(start, end) ==
  DaysUpTo(DayOf(start.t) * MinutesPerDay, end.t)

\* Map.get(key) after Map.set(keyOf(x), x) for every x of seq: the last wins.
\* Position in seq, 0 when the key is not in the map.
MapGet(keys, key) ==
  IF \E i \in 1..Len(keys) : keys[i] = key
  THEN CHOOSE i \in 1..Len(keys) :
         keys[i] = key /\ \A j \in (i + 1)..Len(keys) : keys[j] # key
  ELSE 0

\* compareTimeDataForRange(startDate, endDate, xlsxData, mongoAttendance).days
compareTimeDataForRange(startDate, endDate, xlsxData, mongoAttendance) ==
  LET xlsxKeys == [i \in 1..Len(xlsxData.entries) |-> xlsxData.entries[i].date]
      mongoKeys == [i \in 1..Len(mongoAttendance) |->
                      formatDateString(DateAt(mongoAttendance[i].day))]
      allDays == eachDayOfInterval(startDate, endDate)
      Row(date) ==
        LET dateKey == formatDateString(date)
            x == MapGet(xlsxKeys, dateKey)
            m == MapGet(mongoKeys, dateKey)
            xlsxDay == IF x # 0 THEN extractXlsxData(xlsxData.entries[x])
                       ELSE EmptyXlsxDay(dateKey)
            mongoDay == IF m # 0 THEN extractMongoData(mongoAttendance[m])
                        ELSE EmptyMongoDay
            discrepancies == detectDiscrepancies(xlsxDay, mongoDay)
        IN IF x # 0 \/ m # 0
           THEN DayComparison(dateKey, xlsxDay, mongoDay, discrepancies,
                  generateIssues(discrepancies),
                  IF x # 0 THEN "xlsx" ELSE "mongodb")
           ELSE createEmptyDayComparison(date)
  IN [i \in 1..Len(allDays) |-> Row(allDays[i])]

\* -------------------------------------------------------- comparison table
\* The data behind GET /api/comparison/[employeeId] in the table model: the
\* spreadsheet block and the attendance records of two employees.
\*   E1, 01/01: spreadsheet 09:00-17:00, no record
\*       02/01: a spreadsheet row without times; record 23:50 -> 00:10 (03/01)
\*       03/01: spreadsheet 23:50-00:10 (overnight), no record
\*   E2: not in the spreadsheet; records 08:00-17:00 on 01/01 and on 02/01
Employees == <<"E1", "E2">>

T0900 == <<"0", "9", ":", "0", "0">>
T0330 == <<"0", "3", ":", "3", "0">>
T0300 == <<"0", "3", ":", "0", "0">>
T0259 == <<"0", "2", ":", "5", "9">>
T0359 == <<"0", "3", ":", "5", "9">>
T0400 == <<"0", "4", ":", "0", "0">>

UiXlsx(employeeId) ==
  IF employeeId = "E1"
  THEN XlsxData(<< TimeEntry(D1, T0900, T1700, T0800),
                   TimeEntry(D2, NoTime, NoTime, NoTime),
                   TimeEntry(D3, T2350, T0010, NoTime) >>)
  ELSE NoXlsx

UiMongo(employeeId) ==
  IF employeeId = "E1"
  THEN << AttendanceDay(1, "U1", MinutesPerDay,
            << Period(DateAt(2 * MinutesPerDay - 10 - DubaiOffset),
                      DateAt(2 * MinutesPerDay + 10 - DubaiOffset),
                      "manual", NoLocation, NoLocation) >>,
            FALSE, <<>>, Num(1200)) >>
  ELSE << AttendanceDay(2, "U2", 0,
            << Period(DateAt(8 * 60 - DubaiOffset), DateAt(17 * 60 - DubaiOffset),
                      "manual", NoLocation, NoLocation) >>,
            FALSE, <<>>, Num(32400)),
          AttendanceDay(3, "U2", MinutesPerDay,
            << Period(DateAt(MinutesPerDay + 8 * 60 - DubaiOffset),
                      DateAt(MinutesPerDay + 17 * 60 - DubaiOffset),
                      "manual", NoLocation, NoLocation) >>,
            FALSE, <<>>, Num(32400)) >>

\* the date filters of the model, in range mode: first and last day
Filters == {"F1", "F2"}
FilterStart(filter) == parseDateString(IF filter = "F1" THEN D1 ELSE D3)
FilterEnd(filter) == parseDateString(IF filter = "F1" THEN D2 ELSE D3)

\* getAttendanceForUser(user, startDate, endDate): find({ user, day: { $gte,
\* $lte } }).sort({ day: 1 }); the records of the model are stored by day
getAttendanceForUser(records, startDate, endDate) ==
  LET InRange(r) == r.day >= startDate.t /\ r.day <= endDate.t
  IN SelectSeq(records, InRange)

\* the SWR key of useComparison: the URL made of employee id and filter
Key(employeeId, filter) == <<employeeId, filter>>
NoKey == <<"none", "none">>

\* comparison.days of the response to GET /api/comparison/[employeeId]
ComparisonDays(key) ==
  compareTimeDataForRange(FilterStart(key[2]), FilterEnd(key[2]), UiXlsx(key[1]),
    getAttendanceForUser(UiMongo(key[1]), FilterStart(key[2]), FilterEnd(key[2])))

\* DayValues: the working tuple of a day
DayValues(checkInDate, checkInTime, checkOutDate, checkOutTime) ==
  [ checkInDate |-> checkInDate, checkInTime |-> checkInTime,
    checkOutDate |-> checkOutDate, checkOutTime |-> checkOutTime ]

\* a || b || c on date strings (null and "" are falsy)
OrDate(a, b, c) == IF a # NoDate THEN a ELSE IF b # NoDate THEN b ELSE c

\* the initial working tuple of a day (the initialiser of the values state)
SeedValues(day) ==
  LET hasXlsxData == day.xlsx.in1 # NoTime \/ day.xlsx.out2 # NoTime
  IN DayValues(
       OrDate(day.xlsx.in1Date, day.mongo.firstCheckInDate, day.date),
       IF hasXlsxData THEN day.xlsx.in1 ELSE day.mongo.firstCheckIn,
       OrDate(day.xlsx.out2Date, day.mongo.lastCheckOutDate, day.date),
       IF hasXlsxData THEN day.xlsx.out2 ELSE day.mongo.lastCheckOut)

\* the dates of the rows of a comparison
DatesOf(days) == {days[i].date : i \in 1..Len(days)}

\* the row of a date
DayAt(days, date) == days[CHOOSE i \in 1..Len(days) : days[i].date = date]

\* getValues(date): the working tuple, or the empty one of the date
getValues(values, date) ==
  IF date \in DOMAIN values THEN values[date]
  ELSE DayValues(date, NoTime, date, NoTime)

\* updateValue(date, field, value)
updateValue(values, date, field, value) ==
  LET current == getValues(values, date)
  IN [d \in DOMAIN values \cup {date} |->
        IF d = date THEN [current EXCEPT ![field] = value] ELSE values[d]]

\* the fields of a cell of a day row
TimeField(cell) == IF cell = "checkIn" THEN "checkInTime" ELSE "checkOutTime"
DateField(cell) == IF cell = "checkIn" THEN "checkInDate" ELSE "checkOutDate"

\* the props xlsxValue, xlsxDate, mongoValue, mongoDate of a cell
CellProps(day, cell) ==
  IF cell = "checkIn"
  THEN [ xlsxValue |-> day.xlsx.in1, xlsxDate |-> day.xlsx.in1Date,
         mongoValue |-> day.mongo.firstCheckIn,
         mongoDate |-> day.mongo.firstCheckInDate ]
  ELSE [ xlsxValue |-> day.xlsx.out2, xlsxDate |-> day.xlsx.out2Date,
         mongoValue |-> day.mongo.lastCheckOut,
         mongoDate |-> day.mongo.lastCheckOutDate ]

\* handleInputChange: the text of the input after a change event
handleInputChange(newValue) ==
  IF Len(newValue) = 2 /\ AllDigits(newValue) THEN newValue \o <<":">> ELSE newValue

Placeholder == <<"-", "-", ":", "-", "-">>

\* handleBlur without the check of the hour and minute ranges
handleBlurAnyNumber(inputValue, time) ==
  IF inputValue = <<>> \/ inputValue = Placeholder
  THEN [commit |-> TRUE, time |-> NoTime, inputValue |-> <<>>]
  ELSE LET match == timeRegex(inputValue)
       IN IF match # <<>>
          THEN LET normalized == padStart2(match[1]) \o <<":">> \o match[2]
               IN [commit |-> TRUE, time |-> normalized, inputValue |-> normalized]
          ELSE [commit |-> FALSE, time |-> time, inputValue |-> time]

\* handleBlur: whether onTimeChange is called and with what, and the text the
\* input is left with; time is the committed value (the prop)
handleBlur(inputValue, time) ==
  IF inputValue = <<>> \/ inputValue = Placeholder
  THEN [commit |-> TRUE, time |-> NoTime, inputValue |-> <<>>]
  ELSE LET match == timeRegex(inputValue)
       IN IF /\ match # <<>>
             /\ parseInt(match[1]).v >= 0 /\ parseInt(match[1]).v <= 23
             /\ parseInt(match[2]).v >= 0 /\ parseInt(match[2]).v <= 59
          THEN LET normalized == padStart2(match[1]) \o <<":">> \o match[2]
               IN [commit |-> TRUE, time |-> normalized, inputValue |-> normalized]
          ELSE [commit |-> FALSE, time |-> time, inputValue |-> time]

\* selectSource copying the time of the source and leaving the date
selectSourceTimeOnly(values, day, cell, source) ==
  LET p == CellProps(day, cell)
      hasXlsx == p.xlsxValue # NoTime
      hasMongo == p.mongoValue # NoTime
  IN IF source = "xlsx" /\ hasXlsx
     THEN updateValue(values, day.date, TimeField(cell), p.xlsxValue)
     ELSE IF source = "mongodb" /\ hasMongo /\ p.mongoDate # NoDate
     THEN updateValue(values, day.date, TimeField(cell), p.mongoValue)
     ELSE values

\* selectSource(source) of the cell of a day: onTimeChange, then onDateChange
selectSource(values, day, cell, source) ==
  LET p == CellProps(day, cell)
      hasXlsx == p.xlsxValue # NoTime
      hasMongo == p.mongoValue # NoTime
  IN IF source = "xlsx" /\ hasXlsx
     THEN updateValue(updateValue(values, day.date, TimeField(cell), p.xlsxValue),
                      day.date, DateField(cell), p.xlsxDate)
     ELSE IF source = "mongodb" /\ hasMongo /\ p.mongoDate # NoDate
     THEN updateValue(updateValue(values, day.date, TimeField(cell), p.mongoValue),
                      day.date, DateField(cell), p.mongoDate)
     ELSE values

\* getUpdates(): the selected days of data.days that have a time, in order
getUpdates(days, values, selectedDays) ==
  LET Included(day) ==
        /\ day.date \in selectedDays
        /\ \/ getValues(values, day.date).checkInTime # NoTime
           \/ getValues(values, day.date).checkOutTime # NoTime
      included == SelectSeq(days, Included)
  IN [i \in 1..Len(included) |->
        LET v == getValues(values, included[i].date)
        IN DayUpdate(included[i].date, v.checkInDate, v.checkInTime,
                     v.checkOutDate, v.checkOutTime)]

\* the calculated net hours every DayRow shows
NetHours(days, values) ==
  [d \in DatesOf(days) |->
     LET v == getValues(values, d)
     IN calculateNetHoursWithDates(v.checkInDate, v.checkInTime,
                                   v.checkOutDate, v.checkOutTime)]

\* ComparisonTable not rendered
NoTable == [mounted |-> FALSE, values |-> [d \in {} |-> 0], selectedDays |-> {},
            daysToDelete |-> {}, seed |-> NoKey, netHours |-> [d \in {} |-> 0]]

\* the state of a ComparisonTable that mounts with the data of a key
MountTable(key, days) ==
  LET values == [d \in DatesOf(days) |-> SeedValues(DayAt(days, d))]
  IN [mounted |-> TRUE, values |-> values, selectedDays |-> DatesOf(days),
      daysToDelete |-> {}, seed |-> key, netHours |-> NetHours(days, values)]

\* Home renders ComparisonTable when an employee is selected and the
\* comparison of the current key is loaded
TableShown(p, w) ==
  p.employee # "none" /\ Key(p.employee, p.filter) \in DOMAIN w.data

\* the table after a render of Home: unmounted, mounted anew, or the mounted
\* instance (which keeps its state) with the new data prop
RenderTable(t, p, w) ==
  IF ~TableShown(p, w) THEN NoTable
  ELSE IF t.mounted
  THEN [t EXCEPT !.netHours = NetHours(w.data[Key(p.employee, p.filter)], t.values)]
  ELSE MountTable(Key(p.employee, p.filter), w.data[Key(p.employee, p.filter)])

\* ------------------------------------------------------------------- state
VARIABLES
  attendance,   \* the attendancedays collection, in natural (insertion) order
  nextId,       \* the next ObjectId insertOne will generate
  pc,           \* "idle", or the handler whose batch loop is running
  req,          \* the running request: employee, user, batch size, progress
  resp,         \* the last response returned to a caller
  ops,          \* batch entries processed so far
  fails,        \* store operations that have failed so far
  last,         \* the last batch entry processed: handler, entry, outcome
  twice,        \* the last two entries were the same, for the same user, both applied
  cmpIn,        \* the arguments of a call of compareTimeDataForRange
  cmpOut,       \* its result, once the call has returned
  cellIn,       \* a spreadsheet cell value handed to formatTimeValue
  cellOut,      \* the decoded cell, once the call has returned
  page,         \* Home: the selected employee and the date filter
  swr,          \* useComparison: the keys with cached data, the key being fetched
  table,        \* ComparisonTable: mounted or not, and its useState values
  focus,        \* the EditableTimeCell whose input has the focus, and its text
  sent,         \* the last batch the table sent to a handler
  edits,        \* reviewer actions on the table so far
  navs,         \* employee and filter changes so far
  act,          \* the last event of the page: handler, day, cell, argument
  routeIn,      \* the request and the sources of a GET of the comparison route
  routeOut,     \* its response, once it has returned
  imports,      \* the xlsxImports collection: its documents, in order
  cachedStore,  \* the module-level cache of lib/xlsx/store
  procs,        \* the requests on the import store that are in flight
  impLog,       \* what the requests on the import store did (observation)
  batches       \* the bulk requests that run concurrently on one collection

vars == <<attendance, nextId, pc, req, resp, ops, fails, last, twice, cmpIn, cmpOut,
          cellIn, cellOut, page, swr, table, focus, sent, edits, navs, act,
          routeIn, routeOut, imports, cachedStore, procs, impLog,
          batches>>
storeVars == <<attendance, nextId, pc, req, resp, ops, fails, last, twice>>
cmpVars == <<cmpIn, cmpOut>>
cellVars == <<cellIn, cellOut>>
uiVars == <<page, swr, table, focus, sent, edits, navs, act>>
routeVars == <<routeIn, routeOut>>
importVars == <<imports, cachedStore, procs, impLog>>
raceVars == <<batches>>
extVars == <<routeVars, importVars, raceVars>>

NoEntry == DayUpdate("", "", NoTime, "", NoTime)
\* n is the batch size, idx the number of entries the loop has processed and
\* outcomes the outcome of each of them, in order
NoReq == [emp |-> "none", user |-> "none", n |-> 0, idx |-> 0, count |-> 0,
          errors |-> <<>>, outcomes |-> <<>>]
NoResp == [kind |-> "none", status |-> 0, count |-> 0, errors |-> <<>>, n |-> 0,
           idx |-> 0, outcomes |-> <<>>, success |-> FALSE]
NoStep == [kind |-> "none", user |-> "none", entry |-> NoEntry, outcome |-> "none",
           checkInTimeUTC |-> NullDate, checkOutTimeUTC |-> NullDate]

Message(text, date) == [text |-> text, date |-> date]

\* ---------------------------------------------------------- store queries
\* { user, day: { $gte: lo, $lte: hi } } with both bounds BSON-serialised
Matches(r, user, lo, hi) ==
  r.user = user /\ r.day >= BsonDate(lo).t /\ r.day <= BsonDate(hi).t

\* collection.findOne(filter): position of the first match, 0 when none
findOne(coll, user, lo, hi) ==
  IF \E i \in 1..Len(coll) : Matches(coll[i], user, lo, hi)
  THEN CHOOSE i \in 1..Len(coll) :
         /\ Matches(coll[i], user, lo, hi)
         /\ \A j \in 1..(i - 1) : ~Matches(coll[j], user, lo, hi)
  ELSE 0

\* collection.deleteOne(filter): the collection without its first match
deleteOne(coll, user, lo, hi) ==
  LET i == findOne(coll, user, lo, hi)
  IN IF i = 0 THEN coll
     ELSE SubSeq(coll, 1, i - 1) \o SubSeq(coll, i + 1, Len(coll))

\* ------------------------------------------------- bulk update, one entry
\* update.checkInTime && checkInDate ? dubaiTimeToUTC(checkInDate, time) : null
ConvertTime(date, time) ==
  IF time # NoTime /\ Truthy(date) THEN dubaiTimeToUTC(date, time)
  ELSE {NullDate}

\* TotalSeconds without the clamp of a negative difference to zero
TotalSecondsNoClamp(checkInTimeUTC, checkOutTimeUTC) ==
  IF Truthy(checkInTimeUTC) /\ Truthy(checkOutTimeUTC)
  THEN IF IsDate(checkInTimeUTC) /\ IsDate(checkOutTimeUTC)
       THEN Num((checkOutTimeUTC.t - checkInTimeUTC.t) * 60)
       ELSE NaN
  ELSE Num(0)

\* totalSeconds of bulk/route.ts lines 107-117
TotalSeconds(checkInTimeUTC, checkOutTimeUTC) ==
  IF Truthy(checkInTimeUTC) /\ Truthy(checkOutTimeUTC)
  THEN IF IsDate(checkInTimeUTC) /\ IsDate(checkOutTimeUTC)
       THEN LET totalSeconds == (checkOutTimeUTC.t - checkInTimeUTC.t) * 60
            IN Num(IF totalSeconds < 0 THEN 0 ELSE totalSeconds)
       ELSE NaN
  ELSE Num(0)

\* NewPeriod taking the check-out location and tag from the first period
NewPeriodFromFirst(existingRecord, checkInTimeUTC, checkOutTimeUTC) ==
  LET existingPeriods == existingRecord.periods
      n == Len(existingPeriods)
      checkInLocation ==
        IF n > 0 THEN existingPeriods[1].checkInLocation ELSE NoLocation
      checkOutLocation ==
        IF n > 0 THEN existingPeriods[1].checkOutLocation ELSE NoLocation
      checkoutType ==
        IF n > 0 /\ existingPeriods[1].checkoutType # NoType
        THEN existingPeriods[1].checkoutType ELSE "manual"
  IN Period(BsonDate(checkInTimeUTC), BsonDate(checkOutTimeUTC), checkoutType,
            checkInLocation, checkOutLocation)

\* the single period written over an existing record
NewPeriod(existingRecord, checkInTimeUTC, checkOutTimeUTC) ==
  LET existingPeriods == existingRecord.periods
      n == Len(existingPeriods)
      checkInLocation ==
        IF n > 0 THEN existingPeriods[1].checkInLocation ELSE NoLocation
      checkOutLocation ==
        IF n > 0 THEN existingPeriods[n].checkOutLocation ELSE NoLocation
      checkoutType ==
        IF n > 0 /\ existingPeriods[n].checkoutType # NoType
        THEN existingPeriods[n].checkoutType ELSE "manual"
  IN Period(BsonDate(checkInTimeUTC), BsonDate(checkOutTimeUTC), checkoutType,
            checkInLocation, checkOutLocation)

\* UpdateExisting pushing the new period onto the list instead of replacing it
UpdateExistingAppend(coll, i, checkInTimeUTC, checkOutTimeUTC) ==
  [coll EXCEPT ![i] =
     AttendanceDay(coll[i].id, coll[i].user, coll[i].day,
       Append(coll[i].periods, NewPeriod(coll[i], checkInTimeUTC, checkOutTimeUTC)),
       FALSE, <<>>, TotalSeconds(checkInTimeUTC, checkOutTimeUTC))]

\* UpdateExisting without the $unset of the legacy intervals list
UpdateExistingKeepIntervals(coll, i, checkInTimeUTC, checkOutTimeUTC) ==
  [coll EXCEPT ![i] =
     AttendanceDay(coll[i].id, coll[i].user, coll[i].day,
       << NewPeriod(coll[i], checkInTimeUTC, checkOutTimeUTC) >>,
       coll[i].hasIntervals, coll[i].intervals,
       TotalSeconds(checkInTimeUTC, checkOutTimeUTC))]

\* updateOne({ _id }, { $set: { periods, totalSeconds }, $unset: { intervals } })
UpdateExisting(coll, i, checkInTimeUTC, checkOutTimeUTC) ==
  [coll EXCEPT ![i] =
     AttendanceDay(coll[i].id, coll[i].user, coll[i].day,
       << NewPeriod(coll[i], checkInTimeUTC, checkOutTimeUTC) >>,
       FALSE, <<>>, TotalSeconds(checkInTimeUTC, checkOutTimeUTC))]

\* insertOne(newRecord)
InsertNew(coll, id, user, dayUTC, checkInTimeUTC, checkOutTimeUTC) ==
  Append(coll,
    AttendanceDay(id, user, BsonDate(dayUTC).t,
      << Period(BsonDate(checkInTimeUTC), BsonDate(checkOutTimeUTC), "manual",
                NoLocation, NoLocation) >>,
      FALSE, <<>>, TotalSeconds(checkInTimeUTC, checkOutTimeUTC)))

\* UpdateKey taking the check-out date for the row date
UpdateKeyByCheckOut(update) == parseDateString(update.checkOutDate)

\* The key of the record an update entry looks up or creates
UpdateKey(update) == parseDateString(update.date)

\* One iteration of the loop of POST (bulk/route.ts lines 38-185): the
\* collection, the id counter, the message pushed to errors (if any) and
\* whether updatedCount was incremented.  checkInTimeUTC and checkOutTimeUTC
\* are the outcomes of the two conversions, storeFails says that findOne,
\* updateOne or insertOne rejected.
PostEntry(coll, id, user, update, checkInTimeUTC, checkOutTimeUTC, storeFails) ==
  LET rowDate == UpdateKey(update)
      checkInDate == parseDateString(update.checkInDate)
      checkOutDate == parseDateString(update.checkOutDate)
      dayUTC == DayStartUTC(rowDate)
      dayEndUTC == DayEndUTC(rowDate)
      i == findOne(coll, user, dayUTC, dayEndUTC)
      Keep(msg) == [coll |-> coll, id |-> id, errors |-> <<msg>>, counted |-> FALSE]
  IN CASE ~Truthy(rowDate) ->
            Keep(Message("Invalid row date format", update.date))
       [] Truthy(rowDate) /\ ~Truthy(checkInDate) /\ update.checkInTime # NoTime ->
            Keep(Message("Invalid check-in date format", update.checkInDate))
       [] Truthy(rowDate)
          /\ ~(~Truthy(checkInDate) /\ update.checkInTime # NoTime)
          /\ ~Truthy(checkOutDate) /\ update.checkOutTime # NoTime ->
            Keep(Message("Invalid check-out date format", update.checkOutDate))
       [] OTHER ->
            IF storeFails \/ checkInTimeUTC = Thrown \/ checkOutTimeUTC = Thrown
            THEN Keep(Message("Failed to update", update.date))
            ELSE IF i # 0
            THEN [coll |-> UpdateExisting(coll, i, checkInTimeUTC, checkOutTimeUTC),
                  id |-> id, errors |-> <<>>, counted |-> TRUE]
            ELSE [coll |-> InsertNew(coll, id, user, dayUTC, checkInTimeUTC,
                                     checkOutTimeUTC),
                  id |-> id + 1, errors |-> <<>>, counted |-> TRUE]

\* ------------------------------------------------- bulk delete, one entry
\* DeleteEntry reporting an error when deleteOne deleted nothing
DeleteEntryErrorsOnAbsent(coll, user, dateStr, storeFails) ==
  LET date == parseDateString(dateStr)
      dayUTC == DayStartUTC(date)
      dayEndUTC == DayEndUTC(date)
      i == findOne(coll, user, dayUTC, dayEndUTC)
  IN IF ~Truthy(date)
     THEN [coll |-> coll, errors |-> <<Message("Invalid date format", dateStr)>>,
           counted |-> FALSE]
     ELSE IF storeFails \/ i = 0
     THEN [coll |-> coll, errors |-> <<Message("Failed to delete", dateStr)>>,
           counted |-> FALSE]
     ELSE [coll |-> deleteOne(coll, user, dayUTC, dayEndUTC), errors |-> <<>>,
           counted |-> TRUE]

\* One iteration of the loop of DELETE (delete/route.ts lines 37-83)
DeleteEntry(coll, user, dateStr, storeFails) ==
  LET date == parseDateString(dateStr)
      dayUTC == DayStartUTC(date)
      dayEndUTC == DayEndUTC(date)
      i == findOne(coll, user, dayUTC, dayEndUTC)
  IN IF ~Truthy(date)
     THEN [coll |-> coll, errors |-> <<Message("Invalid date format", dateStr)>>,
           counted |-> FALSE]
     ELSE IF storeFails
     THEN [coll |-> coll, errors |-> <<Message("Failed to delete", dateStr)>>,
           counted |-> FALSE]
     ELSE [coll |-> deleteOne(coll, user, dayUTC, dayEndUTC), errors |-> <<>>,
           counted |-> i # 0]

NoCmp == [startDate |-> NullDate, endDate |-> NullDate, xlsxData |-> NoXlsx,
          mongoAttendance |-> <<>>]
NoDays == [done |-> FALSE, days |-> <<>>]

NoCell == [done |-> FALSE, text |-> NoTime]
NoCellValue == [kind |-> "none", num |-> 0, den |-> 1, s |-> <<>>]
NoPage == [employee |-> "none", filter |-> "none", updated |-> {}]
NoSwr == [data |-> [k \in {} |-> <<>>], pending |-> {}]
NoFocus == [date |-> NoDate, cell |-> "none", inputValue |-> <<>>]
\* the last event: the handler, the day and cell it ran on, its argument or
\* outcome, and the text of the input it read
NoAct ==
  [name |-> "none", date |-> NoDate, cell |-> "none", arg |-> "none", text |-> <<>>]
Act(name, date, cell, arg) ==
  [name |-> name, date |-> date, cell |-> cell, arg |-> arg, text |-> <<>>]
NoSent == [kind |-> "none", employeeId |-> "none", key |-> NoKey, updates |-> <<>>,
           dates |-> {}, marked |-> {}, seed |-> NoKey]

\* ------------------------------------------------- spreadsheet import store
\* The xlsxImports collection, the module-level cache of lib/xlsx/store and the
\* requests that use them. A request runs up to its next await in one step;
\* every command of the database is atomic. Requests run in MaxProcs slots.
MaxImportOps == 3   \* requests on the import store in one run of the model
MaxProcs == 2       \* requests that can be in flight at the same time
Slots == 1..MaxProcs
SuspectKeys == {<<"E1", D1>>, <<"E1", D2>>, <<"E2", D1>>}
UpdatedIds == {"E1"}

\* an XlsxImportDocument: the upload it came from, updatedEmployees, and the
\* suspectDays field, which is an array or null
ImportDoc(upload, updatedEmployees, isArray, suspectDays) ==
  [ upload |-> upload, isLoaded |-> TRUE, updatedEmployees |-> updatedEmployees,
    suspectIsArray |-> isArray, suspectDays |-> suspectDays ]

\* a document as the XlsxImportDocument interface declares it, nothing marked
LoadedDoc == ImportDoc(0, {}, TRUE, <<>>)

\* the document setXlsxStore(parseXlsxFile(buffer)) inserts: updatedEmployees
\* is empty and store.suspectDays is undefined, which the driver writes as null
UploadedDoc(upload) == ImportDoc(upload, {}, FALSE, <<>>)

\* collection.findOne({}): the first document, if any
NoDoc == [upload |-> 0, isLoaded |-> FALSE, updatedEmployees |-> {},
          suspectIsArray |-> FALSE, suspectDays |-> <<>>]
getXlsxImportDoc(docs) == IF docs # <<>> THEN docs[1] ELSE NoDoc

\* docToStore(doc)
docToStore(doc) ==
  [ isLoaded |-> doc.isLoaded, upload |-> doc.upload,
    updatedEmployees |-> doc.updatedEmployees,
    suspectDays |-> IF doc.suspectIsArray THEN doc.suspectDays ELSE <<>> ]

\* updateOne({}, update): the update applied to the first document; nothing
\* happens when the collection is empty (no upsert)
updateFirst(docs, doc) == IF docs # <<>> THEN [docs EXCEPT ![1] = doc] ELSE docs

Contains(seq, x) == \E i \in 1..Len(seq) : seq[i] = x

\* $addToSet: { updatedEmployees: employeeId }
addUpdatedEmployee(docs, employeeId) ==
  updateFirst(docs, [getXlsxImportDoc(docs) EXCEPT !.updatedEmployees = @ \cup {employeeId}])

\* $addToSet: { suspectDays: { employeeId, date } }
addSuspectDay(docs, key) ==
  updateFirst(docs, [getXlsxImportDoc(docs) EXCEPT
    !.suspectDays = IF Contains(@, key) THEN @ ELSE Append(@, key)])

\* $pull: { suspectDays: { employeeId, date } }
removeSuspectDay(docs, key) ==
  LET Other(k) == k # key
  IN updateFirst(docs, [getXlsxImportDoc(docs) EXCEPT
       !.suspectDays = SelectSeq(@, Other)])

\* $addToSet and $pull fail on a field that holds null
UpdateThrows(docs, op) ==
  /\ op \in {"markDayAsSuspect", "unmarkDayAsSuspect"}
  /\ docs # <<>>
  /\ ~docs[1].suspectIsArray

\* getSuspectDays(): doc?.suspectDays ?? []
getSuspectDays(docs) ==
  LET doc == getXlsxImportDoc(docs)
  IN IF doc.suspectIsArray THEN doc.suspectDays ELSE <<>>

\* getSuspectDaysForEmployee(employeeId)
getSuspectDaysForEmployee(docs, employeeId) ==
  LET Mine(k) == k[1] = employeeId
      mine == SelectSeq(getSuspectDays(docs), Mine)
  IN [i \in 1..Len(mine) |-> mine[i][2]]

\* getSuspectDaysCounts()[employeeId], 0 when the employee has no entry
getSuspectDaysCounts(docs, employeeId) ==
  LET Mine(k) == k[1] = employeeId
  IN Len(SelectSeq(getSuspectDays(docs), Mine))

\* the cache: cachedStore is null or a store
NoCache == [cached |-> FALSE, store |-> docToStore(NoDoc)]
Cached(store) == [cached |-> TRUE, store |-> store]

NoKeyArg == <<"none", NoDate>>
IdleProc ==
  [ op |-> "none", pc |-> "idle", key |-> NoKeyArg, upload |-> 0,
    doc |-> NoDoc, ok |-> {}, since |-> {} ]
NoImportStep ==
  [ op |-> "none", key |-> NoKeyArg, before |-> <<>>, after |-> <<>>,
    returned |-> docToStore(NoDoc), ok |-> {} ]
NoImportLog ==
  [ n |-> 0, saved |-> FALSE, marks |-> {}, fresh |-> {}, last |-> NoImportStep ]

\* no request of the comparison route
NoRoute == [mode |-> "none"]
NoRouteOut == [done |-> FALSE]

RouteIdle == routeIn = NoRoute /\ routeOut = NoRouteOut

\* no request on the import store, an empty collection
ImportIdle ==
  /\ imports = <<>>
  /\ cachedStore = NoCache
  /\ procs = [s \in Slots |-> IdleProc]
  /\ impLog = NoImportLog

\* no bulk request in flight
IdleBatch == [pc |-> "idle", update |-> DayUpdate(NoDate, NoDate, NoTime, NoDate, NoTime),
              found |-> 0]
NoBatches == [n |-> 0, run |-> [s \in Slots |-> IdleBatch]]
RaceIdle == batches = NoBatches

\* the variables no action of a specification changes
ExtIdle == RouteIdle /\ ImportIdle /\ RaceIdle

\* ---------------------------------------------------------------- actions
Init ==
  /\ \E legacy \in LegacyShapes : attendance = legacy \o <<OtherRecord>>
  /\ nextId = FirstFreeId
  /\ pc = "idle"
  /\ req = NoReq
  /\ resp = NoResp
  /\ ops = 0
  /\ fails = 0
  /\ last = NoStep
  /\ twice = FALSE
  /\ cmpIn = NoCmp
  /\ cmpOut = NoDays
  /\ cellIn = NoCellValue
  /\ cellOut = NoCell
  /\ page = NoPage
  /\ swr = NoSwr
  /\ table = NoTable
  /\ focus = NoFocus
  /\ sent = NoSent
  /\ edits = 0
  /\ navs = 0
  /\ act = NoAct
  /\ ExtIdle

Response(kind, status, r) ==
  [kind |-> kind, status |-> status, count |-> r.count, errors |-> r.errors,
   n |-> r.n, idx |-> r.idx, outcomes |-> r.outcomes,
   success |-> (Len(r.errors) = 0)]

\* LoopDone for a loop that stops at the first entry that fails
LoopDoneOrFailed(r) == r.idx = r.n \/ Len(r.errors) > 0

\* for (const entry of batch): the loop has run over the whole batch
LoopDone(r) == r.idx = r.n

Outcome(r) == IF Len(r.errors) = 0 THEN "ok" ELSE r.errors[1].text

\* POST /api/attendance/[employeeId]/bulk, up to the batch loop
PostStart ==
  /\ pc = "idle"
  /\ \E employeeId \in RequestEmployees, n \in 0..MaxBatch :
       /\ ops + n <= MaxOps
       /\ findUserByEmployeeId(employeeId) # "none"
       /\ req' = [emp |-> employeeId, user |-> findUserByEmployeeId(employeeId),
                  n |-> n, idx |-> 0, count |-> 0, errors |-> <<>>,
                  outcomes |-> <<>>]
  /\ pc' = "update"
  /\ resp' = NoResp
  /\ UNCHANGED <<attendance, nextId, ops, fails, last, twice>>
  /\ UNCHANGED <<cmpVars, cellVars, uiVars, extVars>>

\* POST: the employee is not in the users collection
PostNotFound ==
  /\ pc = "idle"
  /\ \E employeeId \in RequestEmployees :
       /\ findUserByEmployeeId(employeeId) = "none"
       /\ resp' = Response("update", 404, NoReq)
  /\ UNCHANGED <<attendance, nextId, pc, req, ops, fails, last, twice>>
  /\ UNCHANGED <<cmpVars, cellVars, uiVars, extVars>>

\* POST: one iteration of the batch loop
PostEntryStep ==
  /\ pc = "update"
  /\ ~LoopDone(req)
  /\ \E update \in UpdateEntries, storeFails \in BOOLEAN :
       /\ storeFails => fails < MaxFail
       /\ \E checkInTimeUTC \in
               ConvertTime(parseDateString(update.checkInDate), update.checkInTime),
             checkOutTimeUTC \in
               ConvertTime(parseDateString(update.checkOutDate), update.checkOutTime) :
            LET r == PostEntry(attendance, nextId, req.user, update,
                               checkInTimeUTC, checkOutTimeUTC, storeFails)
            IN /\ attendance' = r.coll
               /\ nextId' = r.id
               /\ req' = [req EXCEPT !.idx = @ + 1,
                                     !.count = IF r.counted THEN @ + 1 ELSE @,
                                     !.errors = @ \o r.errors,
                                     !.outcomes =
                                       Append(@, [date |-> update.date,
                                                  outcome |-> Outcome(r)])]
               /\ last' = [kind |-> "update", user |-> req.user, entry |-> update,
                           outcome |-> Outcome(r),
                           checkInTimeUTC |-> checkInTimeUTC,
                           checkOutTimeUTC |-> checkOutTimeUTC]
               /\ twice' = /\ last.kind = "update" /\ last.user = req.user
                            /\ last.entry = update
                            /\ last.outcome = "ok" /\ Outcome(r) = "ok"
       /\ fails' = IF storeFails THEN fails + 1 ELSE fails
  /\ ops' = ops + 1
  /\ UNCHANGED <<pc, resp>>
  /\ UNCHANGED <<cmpVars, cellVars, uiVars, extVars>>

\* POST: the response after the loop
PostRespond ==
  /\ pc = "update"
  /\ LoopDone(req)
  /\ resp' = Response("update", 200, req)
  /\ pc' = "idle"
  /\ req' = NoReq
  /\ UNCHANGED <<attendance, nextId, ops, fails, last, twice>>
  /\ UNCHANGED <<cmpVars, cellVars, uiVars, extVars>>

\* DELETE /api/attendance/[employeeId]/delete, up to the batch loop
DeleteStart ==
  /\ pc = "idle"
  /\ \E employeeId \in RequestEmployees, n \in 1..MaxBatch :
       /\ ops + n <= MaxOps
       /\ findUserByEmployeeId(employeeId) # "none"
       /\ req' = [emp |-> employeeId, user |-> findUserByEmployeeId(employeeId),
                  n |-> n, idx |-> 0, count |-> 0, errors |-> <<>>,
                  outcomes |-> <<>>]
  /\ pc' = "delete"
  /\ resp' = NoResp
  /\ UNCHANGED <<attendance, nextId, ops, fails, last, twice>>
  /\ UNCHANGED <<cmpVars, cellVars, uiVars, extVars>>

\* DELETE: body.dates is empty
DeleteBadRequest ==
  /\ pc = "idle"
  /\ resp' = Response("delete", 400, NoReq)
  /\ UNCHANGED <<attendance, nextId, pc, req, ops, fails, last, twice>>
  /\ UNCHANGED <<cmpVars, cellVars, uiVars, extVars>>

\* DELETE: the employee is not in the users collection
DeleteNotFound ==
  /\ pc = "idle"
  /\ \E employeeId \in RequestEmployees :
       /\ findUserByEmployeeId(employeeId) = "none"
       /\ resp' = Response("delete", 404, NoReq)
  /\ UNCHANGED <<attendance, nextId, pc, req, ops, fails, last, twice>>
  /\ UNCHANGED <<cmpVars, cellVars, uiVars, extVars>>

\* DELETE: one iteration of the batch loop
DeleteEntryStep ==
  /\ pc = "delete"
  /\ ~LoopDone(req)
  /\ \E dateStr \in DeleteDates, storeFails \in BOOLEAN :
       /\ storeFails => fails < MaxFail
       /\ LET r == DeleteEntry(attendance, req.user, dateStr, storeFails)
          IN /\ attendance' = r.coll
             /\ req' = [req EXCEPT !.idx = @ + 1,
                                   !.count = IF r.counted THEN @ + 1 ELSE @,
                                   !.errors = @ \o r.errors,
                                   !.outcomes =
                                     Append(@, [date |-> dateStr,
                                                outcome |-> Outcome(r)])]
             /\ last' = [kind |-> "delete", user |-> req.user,
                         entry |-> DayUpdate(dateStr, "", NoTime, "", NoTime),
                         outcome |-> Outcome(r),
                         checkInTimeUTC |-> NullDate,
                         checkOutTimeUTC |-> NullDate]
             /\ twice' = /\ last.kind = "delete" /\ last.user = req.user
                          /\ last.entry.date = dateStr
                          /\ last.outcome = "ok" /\ Outcome(r) = "ok"
       /\ fails' = IF storeFails THEN fails + 1 ELSE fails
  /\ ops' = ops + 1
  /\ UNCHANGED <<nextId, pc, resp>>
  /\ UNCHANGED <<cmpVars, cellVars, uiVars, extVars>>

\* DELETE: the response after the loop
DeleteRespond ==
  /\ pc = "delete"
  /\ LoopDone(req)
  /\ resp' = Response("delete", 200, req)
  /\ pc' = "idle"
  /\ req' = NoReq
  /\ UNCHANGED <<attendance, nextId, ops, fails, last, twice>>
  /\ UNCHANGED <<cmpVars, cellVars, uiVars, extVars>>

Next ==
  \/ PostStart
  \/ PostNotFound
  \/ PostEntryStep
  \/ PostRespond
  \/ DeleteStart
  \/ DeleteBadRequest
  \/ DeleteNotFound
  \/ DeleteEntryStep
  \/ DeleteRespond

Spec == Init /\ [][Next]_vars

\* ------------------------------------------- day alignment as a state machine
\* the instants an interval may start or end at: midnight, noon and the last
\* minute of the days 0..MaxDay
CmpInstants ==
  {DateAt(d * MinutesPerDay + m) : d \in 0..MaxDay, m \in {0, 720, 1439}}

\* check-in, check-out and net work hours of the spreadsheet rows
CmpTimes ==
  { <<T2350, T0010, NoTime>>,     \* check-out earlier than check-in
    <<T0900, T1700, T0330>>,      \* check-out later than check-in
    <<T0900, T1700, T0300>>,      \* net work hours at the lower threshold
    <<T0900, T1700, T0259>>,      \* a minute below it
    <<T0900, T1700, T0359>>,      \* a minute below the upper threshold
    <<T0900, T1700, T0400>>,      \* at the upper threshold
    <<T0800, T0800, NoTime>>,     \* equal
    <<NoTime, T1700, NoTime>>,    \* no check-in
    <<T0900, NoTime, NoTime>>,    \* no check-out
    <<TBad, T1700, NoTime>> }     \* a check-in cell that is not a time

\* the rows of one employee's spreadsheet block; the last one has a date
\* cell that contains "/" and is no calendar date
CmpEntries ==
  {TimeEntry(DateStrings[d + 1], t[1], t[2], t[3]) : d \in 0..MaxDay, t \in CmpTimes}
    \cup {TimeEntry("31/02/2026", T2350, T0010, NoTime)}

CmpXlsx ==
  {NoXlsx, XlsxData(<<>>)}
    \cup {XlsxData(<<e>>) : e \in CmpEntries}
    \cup {XlsxData(<<e1, e2>>) : e1 \in CmpEntries, e2 \in CmpEntries}

\* attendance records as getAttendanceForUser returns them, sorted by day
CmpRecords ==
  { <<>>,
    << AttendanceDay(1, "U1", 0,
         << Period(DateAt(1190), DateAt(1210), "manual", NoLocation, NoLocation) >>,
         FALSE, <<>>, Num(1200)) >>,
    << AttendanceDay(1, "U1", 0,
         << Period(DateAt(1190), DateAt(1210), "manual", NoLocation, NoLocation) >>,
         FALSE, <<>>, Num(1200)),
       AttendanceDay(2, "U1", MinutesPerDay, <<>>, TRUE,
         <<MinutesPerDay + 300, MinutesPerDay + 800>>, Num(30000)) >> }

InitCmp ==
  /\ attendance = <<>>
  /\ nextId = FirstFreeId
  /\ pc = "idle"
  /\ req = NoReq
  /\ resp = NoResp
  /\ ops = 0
  /\ fails = 0
  /\ last = NoStep
  /\ twice = FALSE
  /\ \E startDate \in CmpInstants, endDate \in CmpInstants,
        xlsxData \in CmpXlsx, mongoAttendance \in CmpRecords :
       /\ startDate.t <= endDate.t
       /\ cmpIn = [startDate |-> startDate, endDate |-> endDate,
                   xlsxData |-> xlsxData, mongoAttendance |-> mongoAttendance]
  /\ cmpOut = NoDays
  /\ cellIn = NoCellValue
  /\ cellOut = NoCell
  /\ page = NoPage
  /\ swr = NoSwr
  /\ table = NoTable
  /\ focus = NoFocus
  /\ sent = NoSent
  /\ edits = 0
  /\ navs = 0
  /\ act = NoAct
  /\ ExtIdle

\* one call of compareTimeDataForRange
CompareRange ==
  /\ ~cmpOut.done
  /\ cmpOut' = [done |-> TRUE,
                days |-> compareTimeDataForRange(cmpIn.startDate, cmpIn.endDate,
                           cmpIn.xlsxData, cmpIn.mongoAttendance)]
  /\ UNCHANGED cmpIn
  /\ UNCHANGED <<storeVars, cellVars, uiVars, extVars>>

NextCmp == CompareRange

SpecCmp == InitCmp /\ [][NextCmp]_vars

\* ------------------------------------------ cell decoding as a state machine
T0800Short == <<"8", ":", "0", "0">>
T0800Padded == <<" ", "0", "8", ":", "0", "0", " ">>

\* the cell values of the model: the multiples of 1/64 from 0 to MaxCell/64,
\* a negative number, strings and the empty cell
CellValues ==
  {NumberCell(n, 64) : n \in 0..MaxCell}
    \cup {NumberCell(0 - 1, 1), EmptyCell}
    \cup {StringCell(str) : str \in {<<>>, <<"-", "-">>, <<" ">>, T0800, T0800Short,
                                      T0800Padded, TBad}}

InitCell ==
  /\ attendance = <<>>
  /\ nextId = FirstFreeId
  /\ pc = "idle"
  /\ req = NoReq
  /\ resp = NoResp
  /\ ops = 0
  /\ fails = 0
  /\ last = NoStep
  /\ twice = FALSE
  /\ cmpIn = NoCmp
  /\ cmpOut = NoDays
  /\ cellIn \in CellValues
  /\ cellOut = NoCell
  /\ page = NoPage
  /\ swr = NoSwr
  /\ table = NoTable
  /\ focus = NoFocus
  /\ sent = NoSent
  /\ edits = 0
  /\ navs = 0
  /\ act = NoAct
  /\ ExtIdle

\* one call of formatTimeValue
FormatCell ==
  /\ ~cellOut.done
  /\ cellOut' = [done |-> TRUE, text |-> formatTimeValue(cellIn)]
  /\ UNCHANGED cellIn
  /\ UNCHANGED <<storeVars, cmpVars, uiVars, extVars>>

NextCell == FormatCell

SpecCell == InitCell /\ [][NextCell]_vars

\* --------------------------------------- comparison table as a state machine
T0830 == <<"0", "8", ":", "3", "0">>
T0830Short == <<"8", ":", "3", "0">>
T2400 == <<"2", "4", ":", "0", "0">>
T1260 == <<"1", "2", ":", "6", "0">>

\* the texts a reviewer types into the input of a cell
TypedTexts == {T0830, T0830Short, T2400, T1260, <<"0", "8">>, TBad, <<>>, Placeholder}

InitTable ==
  /\ attendance = <<>>
  /\ nextId = FirstFreeId
  /\ pc = "idle"
  /\ req = NoReq
  /\ resp = NoResp
  /\ ops = 0
  /\ fails = 0
  /\ last = NoStep
  /\ twice = FALSE
  /\ cmpIn = NoCmp
  /\ cmpOut = NoDays
  /\ cellIn = NoCellValue
  /\ cellOut = NoCell
  /\ \E filter \in Filters : page = [employee |-> "none", filter |-> filter, updated |-> {}]
  /\ swr = NoSwr
  /\ table = NoTable
  /\ focus = NoFocus
  /\ sent = NoSent
  /\ edits = 0
  /\ navs = 0
  /\ act = NoAct
  /\ ExtIdle

\* useSWR(url): a key without cached data is fetched
Requested(w, key) ==
  IF key[1] = "none" \/ key \in DOMAIN w.data THEN w
  ELSE [w EXCEPT !.pending = @ \cup {key}]

\* the data prop of the mounted table
DataDays == swr.data[Key(page.employee, page.filter)]

\* setSelectedEmployee(employee): the auto-select effect or the selector
SelectEmployee ==
  /\ focus = NoFocus
  /\ navs < MaxNavs
  /\ \E i \in 1..Len(Employees) :
       /\ Employees[i] # page.employee
       /\ page' = [page EXCEPT !.employee = Employees[i]]
       /\ act' = Act("SelectEmployee", NoDate, "none", Employees[i])
  /\ swr' = Requested(swr, Key(page'.employee, page'.filter))
  /\ table' = RenderTable(table, page', swr')
  /\ navs' = navs + 1
  /\ UNCHANGED <<focus, sent, edits>>
  /\ UNCHANGED <<storeVars, cmpVars, cellVars, extVars>>

\* setFilter(filter) from the DateFilterBar, disabled while loading
SetFilter ==
  /\ focus = NoFocus
  /\ navs < MaxNavs
  /\ page.employee # "none"
  /\ Key(page.employee, page.filter) \in DOMAIN swr.data
  /\ \E filter \in Filters :
       /\ filter # page.filter
       /\ page' = [page EXCEPT !.filter = filter]
       /\ act' = Act("SetFilter", NoDate, "none", filter)
  /\ swr' = Requested(swr, Key(page'.employee, page'.filter))
  /\ table' = RenderTable(table, page', swr')
  /\ navs' = navs + 1
  /\ UNCHANGED <<focus, sent, edits>>
  /\ UNCHANGED <<storeVars, cmpVars, cellVars, extVars>>

\* the response to a fetch arrives and is cached under its key
FetchDone ==
  /\ \E key \in swr.pending :
       swr' = [data |-> [k \in DOMAIN swr.data \cup {key} |->
                           IF k = key THEN ComparisonDays(key) ELSE swr.data[k]],
               pending |-> swr.pending \ {key}]
  /\ table' = RenderTable(table, page, swr')
  /\ act' = Act("FetchDone", NoDate, "none", "none")
  /\ UNCHANGED <<page, focus, sent, edits, navs>>
  /\ UNCHANGED <<storeVars, cmpVars, cellVars, extVars>>

\* a reviewer action on the mounted table, no input having the focus
CanEdit == table.mounted /\ focus = NoFocus /\ edits < MaxEdits

\* toggleDaySelection(date)
ToggleDaySelection ==
  /\ CanEdit
  /\ \E date \in DatesOf(DataDays) :
       /\ table' = [table EXCEPT !.selectedDays =
                      IF date \in @ THEN @ \ {date} ELSE @ \cup {date}]
       /\ act' = Act("toggleDaySelection", date, "none", "none")
  /\ edits' = edits + 1
  /\ UNCHANGED <<page, swr, focus, sent, navs>>
  /\ UNCHANGED <<storeVars, cmpVars, cellVars, extVars>>

\* toggleDeleteMark(date); the button is rendered for days with a record value
ToggleDeleteMark ==
  /\ CanEdit
  /\ \E i \in 1..Len(DataDays) :
       /\ DataDays[i].mongo.firstCheckIn # NoTime \/ DataDays[i].mongo.lastCheckOut # NoTime
       /\ table' = [table EXCEPT !.daysToDelete =
                      IF DataDays[i].date \in @ THEN @ \ {DataDays[i].date}
                      ELSE @ \cup {DataDays[i].date}]
       /\ act' = Act("toggleDeleteMark", DataDays[i].date, "none", "none")
  /\ edits' = edits + 1
  /\ UNCHANGED <<page, swr, focus, sent, navs>>
  /\ UNCHANGED <<storeVars, cmpVars, cellVars, extVars>>

\* the Select All checkbox: deselectAllDays when checked, selectAllDays otherwise
ToggleSelectAll ==
  /\ CanEdit
  /\ table' = [table EXCEPT !.selectedDays =
                 IF Cardinality(@) = Len(DataDays) THEN {} ELSE DatesOf(DataDays)]
  /\ act' = Act("selectAll", NoDate, "none", "none")
  /\ edits' = edits + 1
  /\ UNCHANGED <<page, swr, focus, sent, navs>>
  /\ UNCHANGED <<storeVars, cmpVars, cellVars, extVars>>

\* a click on the XLSX or MongoDB button of a cell
SelectSource ==
  /\ CanEdit
  /\ \E i \in 1..Len(DataDays), cell \in {"checkIn", "checkOut"},
        source \in {"xlsx", "mongodb"} :
       LET p == CellProps(DataDays[i], cell)
           values == selectSource(table.values, DataDays[i], cell, source)
       IN /\ IF source = "xlsx" THEN p.xlsxValue # NoTime ELSE p.mongoValue # NoTime
          /\ table' = [table EXCEPT !.values = values,
                                    !.netHours = NetHours(DataDays, values)]
          /\ act' = Act("selectSource", DataDays[i].date, cell, source)
  /\ edits' = edits + 1
  /\ UNCHANGED <<page, swr, focus, sent, navs>>
  /\ UNCHANGED <<storeVars, cmpVars, cellVars, extVars>>

\* prevDay / nextDay of a cell, within the calendar of the model
ShiftDay ==
  /\ CanEdit
  /\ \E date \in DatesOf(DataDays), cell \in {"checkIn", "checkOut"},
        delta \in {0 - 1, 1} :
       LET current == parseDateString(getValues(table.values, date)[DateField(cell)])
           newDate == DateAt(current.t + delta * 24 * 60)
       IN /\ IsDate(current)
          /\ DayOf(newDate.t) + 1 \in 1..Len(DateStrings)
          /\ LET values == updateValue(table.values, date, DateField(cell),
                                       formatDateString(newDate))
             IN table' = [table EXCEPT !.values = values,
                                       !.netHours = NetHours(DataDays, values)]
          /\ act' = Act(IF delta = 1 THEN "nextDay" ELSE "prevDay", date, cell, "none")
  /\ edits' = edits + 1
  /\ UNCHANGED <<page, swr, focus, sent, navs>>
  /\ UNCHANGED <<storeVars, cmpVars, cellVars, extVars>>

\* a change event of the input of a cell
InputChange ==
  /\ table.mounted
  /\ edits < MaxEdits
  /\ \E date \in DatesOf(DataDays), cell \in {"checkIn", "checkOut"},
        newValue \in TypedTexts :
       /\ focus = NoFocus \/ (focus.date = date /\ focus.cell = cell)
       /\ focus' = [date |-> date, cell |-> cell,
                    inputValue |-> handleInputChange(newValue)]
       /\ act' = Act("handleInputChange", date, cell, "none")
  /\ edits' = edits + 1
  /\ UNCHANGED <<page, swr, table, sent, navs>>
  /\ UNCHANGED <<storeVars, cmpVars, cellVars, extVars>>

\* the input of a cell loses the focus
Blur ==
  /\ table.mounted
  /\ focus # NoFocus
  /\ LET time == getValues(table.values, focus.date)[TimeField(focus.cell)]
         r == handleBlur(focus.inputValue, time)
         values == IF r.commit
                   THEN updateValue(table.values, focus.date, TimeField(focus.cell),
                                    r.time)
                   ELSE table.values
     IN table' = [table EXCEPT !.values = values,
                               !.netHours = NetHours(DataDays, values)]
  /\ focus' = NoFocus
  /\ act' = [Act("handleBlur", focus.date, focus.cell, "none")
               EXCEPT !.text = focus.inputValue]
  /\ UNCHANGED <<page, swr, sent, edits, navs>>
  /\ UNCHANGED <<storeVars, cmpVars, cellVars, extVars>>

\* markUpdatedAndAdvance: the next employee of the list that is not updated
NextEmployee(p) ==
  LET currentIndex == CHOOSE i \in 1..Len(Employees) : Employees[i] = p.employee
      later == {i \in (currentIndex + 1)..Len(Employees) : Employees[i] \notin p.updated}
  IN IF later = {} THEN p.employee
     ELSE Employees[CHOOSE i \in later : \A j \in later : i <= j]

\* handleApplyAll: POST the updates; on success refresh and advance
ApplyAll ==
  /\ CanEdit
  /\ Len(getUpdates(DataDays, table.values, table.selectedDays)) > 0
  /\ sent' = [kind |-> "update", employeeId |-> page.employee,
              key |-> Key(page.employee, page.filter),
              updates |-> getUpdates(DataDays, table.values, table.selectedDays),
              dates |-> {}, marked |-> table.daysToDelete, seed |-> table.seed]
  /\ \E ok \in BOOLEAN :
       /\ page' = IF ok THEN [page EXCEPT !.employee = NextEmployee(page),
                                         !.updated = @ \cup {page.employee}]
                  ELSE page
       /\ act' = Act("handleApplyAll", NoDate, "none", IF ok THEN "ok" ELSE "failed")
  /\ swr' = Requested(swr, Key(page'.employee, page'.filter))
  /\ table' = RenderTable(table, page', swr')
  /\ edits' = edits + 1
  /\ UNCHANGED <<focus, navs>>
  /\ UNCHANGED <<storeVars, cmpVars, cellVars, extVars>>

\* handleDeleteSelected: DELETE the marked days; on success clear the marks
DeleteSelected ==
  /\ CanEdit
  /\ table.daysToDelete # {}
  /\ sent' = [kind |-> "delete", employeeId |-> page.employee,
              key |-> Key(page.employee, page.filter), updates |-> <<>>,
              dates |-> table.daysToDelete, marked |-> table.daysToDelete,
              seed |-> table.seed]
  /\ \E ok \in BOOLEAN :
       /\ table' = IF ok THEN [table EXCEPT !.daysToDelete = {}] ELSE table
       /\ act' = Act("handleDeleteSelected", NoDate, "none",
                     IF ok THEN "ok" ELSE "failed")
  /\ edits' = edits + 1
  /\ UNCHANGED <<page, swr, focus, navs>>
  /\ UNCHANGED <<storeVars, cmpVars, cellVars, extVars>>

NextTable ==
  \/ SelectEmployee
  \/ SetFilter
  \/ FetchDone
  \/ ToggleDaySelection
  \/ ToggleDeleteMark
  \/ ToggleSelectAll
  \/ SelectSource
  \/ ShiftDay
  \/ InputChange
  \/ Blur
  \/ ApplyAll
  \/ DeleteSelected

SpecTable == InitTable /\ [][NextTable]_vars

\* ------------------------------------------------------- comparison route
\* GET /api/comparison/[employeeId] as a function of the request, of what the
\* two sources hold and of the clock. Store calls that fail are named in
\* routeIn.fail; "all" is a store that cannot be reached at all.
RouteModes == {"month", "range", "all"}
NoMonth == "none"
MonthJan == "2026-01"
MonthFeb == "2026-02"
RouteMonths == {NoMonth, MonthJan, MonthFeb}
RouteDates == {NoDate, D1, D3, BadDate}
RouteFails == {"none", "users", "earliest", "attendance", "all"}
\* new Date(): noon of 04/01 or of 05/01
RouteNows == {3 * MinutesPerDay + 720, 4 * MinutesPerDay + 720}
\* user.dateOfJoining: absent, 02/01 at 10:00, or 07/01 (after today)
RouteJoinings == {NullDate, DateAt(MinutesPerDay + 600), DateAt(6 * MinutesPerDay)}
\* getDateRange(): null, the first date of the spreadsheet, or a cell that is
\* not a dd/MM/yyyy date
NoRange == "none"
RouteRanges == {NoRange, D3, BadDate}
RouteRecords == {<<>>, UiMongo("E1")}

Fails(in, call) == in.fail = call \/ in.fail = "all"

\* max([a, b]) and min([a, b]) of date-fns: Invalid Date when either is
dateMax(a, b) ==
  IF ~IsDate(a) \/ ~IsDate(b) THEN InvalidDate
  ELSE IF a.t >= b.t THEN a ELSE b

dateMin(a, b) ==
  IF ~IsDate(a) \/ ~IsDate(b) THEN InvalidDate
  ELSE IF a.t <= b.t THEN a ELSE b

\* startOfMonth / endOfMonth of parse(monthParam, "yyyy-MM") or of new Date()
startOfMonth(monthParam) ==
  DateAt(IF monthParam = MonthFeb THEN 31 * MinutesPerDay ELSE 0)

endOfMonth(monthParam) ==
  DateAt(IF monthParam = MonthFeb THEN 59 * MinutesPerDay - 1
         ELSE 31 * MinutesPerDay - 1)

\* today.setHours(23, 59, 59, 999)
EndOfToday(now) == DateAt(DayOf(now) * MinutesPerDay + MinutesPerDay - 1)

\* the earliest date with data, and where it came from; a store call that
\* fails is the outcome Thrown
DetermineEarliestXlsxFirst(in, today) ==
  IF in.dateRange # NoRange
  THEN LET xlsxStart == parseDateString(in.dateRange)
       IN [date |-> IF Truthy(xlsxStart) THEN xlsxStart ELSE today,
           source |-> "xlsx"]
  ELSE IF in.user # "none" /\ Truthy(in.joining)
  THEN [date |-> in.joining, source |-> "dateOfJoining"]
  ELSE IF in.user # "none"
  THEN IF Fails(in, "earliest") THEN [date |-> Thrown, source |-> "earliestRecord"]
       ELSE IF Len(in.records) > 0
       THEN [date |-> DateAt(in.records[1].day), source |-> "earliestRecord"]
       ELSE [date |-> today, source |-> "earliestRecord"]
  ELSE [date |-> today, source |-> "xlsx"]
DetermineEarliest(in, today) ==
  IF in.user # "none" /\ Truthy(in.joining)
  THEN [date |-> in.joining, source |-> "dateOfJoining"]
  ELSE IF in.dateRange # NoRange
  THEN LET xlsxStart == parseDateString(in.dateRange)
       IN [date |-> IF Truthy(xlsxStart) THEN xlsxStart ELSE today,
           source |-> "xlsx"]
  ELSE IF in.user # "none"
  THEN IF Fails(in, "earliest") THEN [date |-> Thrown, source |-> "earliestRecord"]
       ELSE IF Len(in.records) > 0
       THEN [date |-> DateAt(in.records[1].day), source |-> "earliestRecord"]
       ELSE [date |-> today, source |-> "earliestRecord"]
  ELSE [date |-> today, source |-> "xlsx"]

\* the switch on mode, then "if (queryStart > queryEnd) queryStart = queryEnd"
QueryRange(in, earliest, today) ==
  LET rangeStart == IF in.startDate # NoDate THEN parseDateString(in.startDate)
                    ELSE NullDate
      rangeEnd == IF in.endDate # NoDate THEN parseDateString(in.endDate)
                  ELSE NullDate
      start == CASE in.mode = "month" ->
                      dateMax(startOfMonth(in.month), earliest)
                 [] in.mode = "range" ->
                      dateMax(IF Truthy(rangeStart) THEN rangeStart ELSE earliest,
                              earliest)
                 [] OTHER -> earliest
      end == CASE in.mode = "month" -> dateMin(endOfMonth(in.month), today)
               [] in.mode = "range" ->
                    dateMin(IF Truthy(rangeEnd) THEN rangeEnd ELSE today, today)
               [] OTHER -> today
  IN [start |-> IF IsDate(start) /\ IsDate(end) /\ start.t > end.t
                THEN end ELSE start,
      end |-> end]

RouteError(status, error) ==
  [done |-> TRUE, status |-> status, error |-> error]

\* the handler; format() of an Invalid Date throws, and so does a store call
\* outside the inner try: both end in the outer catch
GET(in) ==
  LET xlsxLoaded == in.xlsx # "notLoaded"
      xlsxData == IF in.xlsx = "known" THEN UiXlsx("E1") ELSE NoXlsx
      today == EndOfToday(in.now)
      found == DetermineEarliest(in, today)
      earliest == found.date
      query == QueryRange(in, earliest, today)
      mongoAttendance ==
        IF in.user # "none" /\ ~Fails(in, "attendance")
        THEN getAttendanceForUser(in.records, query.start, query.end)
        ELSE <<>>
  IN IF Fails(in, "users") THEN RouteError(500, "Failed to generate comparison")
     ELSE IF ~xlsxData.present /\ in.user = "none"
     THEN RouteError(404, "Employee not found")
     ELSE IF ~IsDate(earliest) \/ ~IsDate(query.start) \/ ~IsDate(query.end)
     THEN RouteError(500, "Failed to generate comparison")
     ELSE [ done |-> TRUE, status |-> 200, error |-> "",
            earliest |-> formatDateString(earliest),
            latest |-> formatDateString(today),
            earliestSource |-> found.source,
            queryStart |-> query.start, queryEnd |-> query.end,
            fetched |-> mongoAttendance,
            days |-> compareTimeDataForRange(query.start, query.end,
                                             xlsxData, mongoAttendance) ]

\* the variables of the other parts, at rest
OtherIdle ==
  /\ cmpIn = NoCmp /\ cmpOut = NoDays
  /\ cellIn = NoCellValue /\ cellOut = NoCell
  /\ page = NoPage /\ swr = NoSwr /\ table = NoTable /\ focus = NoFocus
  /\ sent = NoSent /\ edits = 0 /\ navs = 0 /\ act = NoAct

CoreIdle ==
  /\ attendance = <<>> /\ nextId = FirstFreeId /\ pc = "idle"
  /\ req = NoReq /\ resp = NoResp /\ ops = 0 /\ fails = 0
  /\ last = NoStep /\ twice = FALSE
  /\ OtherIdle

InitRoute ==
  /\ routeIn \in
       { in \in [ mode : RouteModes, month : RouteMonths,
                  startDate : RouteDates, endDate : RouteDates,
                  xlsx : {"notLoaded", "unknown", "known"},
                  dateRange : RouteRanges, user : {"none", "U1"},
                  joining : RouteJoinings, records : RouteRecords,
                  now : RouteNows, fail : RouteFails ] :
           /\ (in.mode # "month" => in.month = NoMonth)
           /\ (in.mode # "range" => in.startDate = NoDate /\ in.endDate = NoDate)
           /\ (in.xlsx = "notLoaded" => in.dateRange = NoRange)
           /\ (in.user = "none" => in.joining = NullDate /\ in.records = <<>>) }
  /\ routeOut = NoRouteOut
  /\ ImportIdle
  /\ RaceIdle
  /\ CoreIdle

Get ==
  /\ ~routeOut.done
  /\ routeOut' = GET(routeIn)
  /\ UNCHANGED <<routeIn, storeVars, cmpVars, cellVars, uiVars, importVars, raceVars>>

NextRoute == Get

SpecRoute == InitRoute /\ [][NextRoute]_vars

\* what a read of the collection shows
Content(docs) == docToStore(getXlsxImportDoc(docs))

\* bookkeeping of the requests in flight when the collection becomes docs: a
\* read may return it, and it is not older than a write already applied
Touch(ps, docs) ==
  [ s \in Slots |->
      [ps[s] EXCEPT
         !.ok = IF ps[s].op = "loadFromMongo" THEN @ \cup {Content(docs)} ELSE @,
         !.since = IF @ # {} THEN @ \cup {Content(docs)} ELSE @] ]

InitImport ==
  /\ imports \in {<<>>, <<LoadedDoc>>}
  /\ cachedStore = NoCache
  /\ procs = [s \in Slots |-> IdleProc]
  /\ impLog = [NoImportLog EXCEPT !.saved = (imports # <<>>),
                                  !.fresh = {Content(imports)}]
  /\ RouteIdle
  /\ RaceIdle
  /\ CoreIdle

CanCall(s) == procs[s].op = "none" /\ impLog.n < MaxImportOps

\* loadFromMongo(), up to "await getXlsxImportDoc()": a cached store is
\* returned at once
CallRead(s) ==
  /\ CanCall(s)
  /\ IF cachedStore.cached
     THEN /\ impLog' = [impLog EXCEPT !.n = @ + 1,
                          !.last = [NoImportStep EXCEPT !.op = "loadFromMongo",
                                      !.returned = cachedStore.store,
                                      !.ok = impLog.fresh]]
          /\ UNCHANGED procs
     ELSE /\ procs' = [procs EXCEPT ![s] = [IdleProc EXCEPT !.op = "loadFromMongo",
                                              !.pc = "find", !.ok = impLog.fresh]]
          /\ impLog' = [impLog EXCEPT !.n = @ + 1]
  /\ UNCHANGED <<imports, cachedStore>>
  /\ UNCHANGED <<storeVars, cmpVars, cellVars, uiVars, routeVars, raceVars>>

\* collection.findOne({}) of a load in flight
FindOne(s) ==
  /\ procs[s].pc = "find"
  /\ procs' = [procs EXCEPT ![s].doc = getXlsxImportDoc(imports), ![s].pc = "store"]
  /\ UNCHANGED <<imports, cachedStore, impLog>>
  /\ UNCHANGED <<storeVars, cmpVars, cellVars, uiVars, routeVars, raceVars>>

\* cachedStore = docToStore(doc); return cachedStore
ReadReturn(s) ==
  /\ procs[s].pc = "store"
  /\ cachedStore' = Cached(docToStore(procs[s].doc))
  /\ impLog' = [impLog EXCEPT
       !.last = [NoImportStep EXCEPT !.op = "loadFromMongo",
                   !.returned = docToStore(procs[s].doc), !.ok = procs[s].ok]]
  /\ procs' = [procs EXCEPT ![s] = IdleProc]
  /\ UNCHANGED imports
  /\ UNCHANGED <<storeVars, cmpVars, cellVars, uiVars, routeVars, raceVars>>

\* collection.deleteMany({}) of setXlsxStore (saveXlsxImportDoc) or of
\* clearXlsxStore (deleteXlsxImportDoc)
DeleteMany(s, op) ==
  /\ CanCall(s)
  /\ imports' = <<>>
  /\ procs' = [Touch(procs, <<>>) EXCEPT
       ![s] = [IdleProc EXCEPT !.op = op, !.upload = impLog.n + 1,
                 !.pc = IF op = "setXlsxStore" THEN "insert" ELSE "invalidate",
                 !.since = IF op = "setXlsxStore" THEN {} ELSE {Content(<<>>)}]]
  /\ impLog' = [impLog EXCEPT !.n = @ + 1,
       !.fresh = @ \cup {Content(<<>>)},
       !.saved = IF op = "clearXlsxStore" THEN FALSE ELSE @,
       !.marks = IF op = "clearXlsxStore" THEN {} ELSE @]
  /\ UNCHANGED cachedStore
  /\ UNCHANGED <<storeVars, cmpVars, cellVars, uiVars, routeVars, raceVars>>

\* collection.insertOne({ ...doc, createdAt, updatedAt }) of saveXlsxImportDoc
InsertOne(s) ==
  /\ procs[s].pc = "insert"
  /\ LET docs == Append(imports, UploadedDoc(procs[s].upload))
     IN /\ imports' = docs
        /\ procs' = [Touch(procs, docs) EXCEPT
             ![s] = [procs[s] EXCEPT !.pc = "invalidate", !.since = {Content(docs)}]]
        /\ impLog' = [impLog EXCEPT !.fresh = @ \cup {Content(docs)}]
  /\ UNCHANGED cachedStore
  /\ UNCHANGED <<storeVars, cmpVars, cellVars, uiVars, routeVars, raceVars>>

\* collection.updateOne({}, ...) of markEmployeeUpdated, markDayAsSuspect or
\* unmarkDayAsSuspect; when it throws the request ends without invalidateCache
UpdateOne(s, op, key) ==
  /\ CanCall(s)
  /\ LET docs == IF UpdateThrows(imports, op) THEN imports
                 ELSE CASE op = "markEmployeeUpdated" -> addUpdatedEmployee(imports, key[1])
                        [] op = "markDayAsSuspect" -> addSuspectDay(imports, key)
                        [] OTHER -> removeSuspectDay(imports, key)
     IN /\ imports' = docs
        /\ procs' = IF UpdateThrows(imports, op) THEN procs
                    ELSE [Touch(procs, docs) EXCEPT
                           ![s] = [IdleProc EXCEPT !.op = op, !.pc = "invalidate",
                                     !.key = key, !.since = {Content(docs)}]]
        /\ impLog' = [impLog EXCEPT !.n = @ + 1,
             !.fresh = @ \cup {Content(docs)},
             !.marks = IF op = "unmarkDayAsSuspect" THEN @ \ {key} ELSE @,
             !.last = [NoImportStep EXCEPT !.op = op, !.key = key,
                         !.before = getSuspectDaysForEmployee(imports, key[1]),
                         !.after = getSuspectDaysForEmployee(docs, key[1])]]
  /\ UNCHANGED cachedStore
  /\ UNCHANGED <<storeVars, cmpVars, cellVars, uiVars, routeVars, raceVars>>

\* invalidateCache() and the return of the write. A marker counts as added
\* when the add returned, the list showed it and no removal of it is running.
Invalidate(s) ==
  /\ procs[s].pc = "invalidate"
  /\ cachedStore' = NoCache
  /\ procs' = [procs EXCEPT ![s] = IdleProc]
  /\ impLog' = [impLog EXCEPT
       !.fresh = @ \cap procs[s].since,
       !.saved = IF procs[s].op = "setXlsxStore" THEN TRUE ELSE @,
       !.marks = IF /\ procs[s].op = "markDayAsSuspect"
                    /\ Contains(getSuspectDays(imports), procs[s].key)
                    /\ \A t \in Slots : ~(procs[t].op = "unmarkDayAsSuspect"
                                           /\ procs[t].key = procs[s].key)
                 THEN @ \cup {procs[s].key} ELSE @]
  /\ UNCHANGED imports
  /\ UNCHANGED <<storeVars, cmpVars, cellVars, uiVars, routeVars, raceVars>>

NextImport ==
  \E s \in Slots :
    \/ CallRead(s)
    \/ FindOne(s)
    \/ ReadReturn(s)
    \/ \E op \in {"setXlsxStore", "clearXlsxStore"} : DeleteMany(s, op)
    \/ InsertOne(s)
    \/ \E id \in UpdatedIds : UpdateOne(s, "markEmployeeUpdated", <<id, NoDate>>)
    \/ \E op \in {"markDayAsSuspect", "unmarkDayAsSuspect"}, key \in SuspectKeys :
         UpdateOne(s, op, key)
    \/ Invalidate(s)

SpecImport == InitImport /\ [][NextImport]_vars

\* -------------------------------------------------- concurrent bulk requests
\* POST .../bulk and POST .../delete of one user, run by requests in MaxProcs
\* slots over the same attendance collection. A request handles one row per
\* call here; between its findOne and its updateOne / insertOne the other
\* request may run.
MaxRaceOps == 3     \* rows handled by the concurrent bulk requests in one run
RaceUser == "U1"
RaceUpdates ==
  { DayUpdate(D1, D1, T0800, D1, T1700),
    DayUpdate(D1, D1, T0900, D1, T1700),
    DayUpdate(D2, D2, T0800, D2, T1700) }
RaceDeletes == {D1, D2}

InitRace ==
  /\ \E legacy \in LegacyShapes : attendance = legacy \o <<OtherRecord>>
  /\ nextId = FirstFreeId
  /\ batches = NoBatches
  /\ pc = "idle" /\ req = NoReq /\ resp = NoResp /\ ops = 0 /\ fails = 0
  /\ last = NoStep /\ twice = FALSE
  /\ OtherIdle
  /\ RouteIdle
  /\ ImportIdle

CanStart(s) == batches.run[s].pc = "idle" /\ batches.n < MaxRaceOps

\* position of the record with this _id, 0 when it is gone
IndexOfId(coll, id) ==
  IF \E i \in 1..Len(coll) : coll[i].id = id
  THEN CHOOSE i \in 1..Len(coll) : coll[i].id = id
  ELSE 0

\* "const existingRecord = await attendanceCollection.findOne(...)" of a row
FindExisting(s, update) ==
  /\ CanStart(s)
  /\ LET rowDate == UpdateKey(update)
         i == findOne(attendance, RaceUser, DayStartUTC(rowDate), DayEndUTC(rowDate))
     IN batches' = [batches EXCEPT !.n = @ + 1,
          !.run[s] = [pc |-> "write", update |-> update,
                      found |-> IF i = 0 THEN 0 ELSE attendance[i].id]]
  /\ UNCHANGED <<attendance, nextId>>
  /\ UNCHANGED <<pc, req, resp, ops, fails, last, twice>>
  /\ UNCHANGED <<cmpVars, cellVars, uiVars, routeVars, importVars>>

\* "if (existingRecord) updateOne({ _id }, ...) else insertOne(newRecord)"
WriteRecord(s) ==
  /\ batches.run[s].pc = "write"
  /\ LET update == batches.run[s].update
         found == batches.run[s].found
         i == IndexOfId(attendance, found)
     IN \E checkInTimeUTC \in
             ConvertTime(parseDateString(update.checkInDate), update.checkInTime),
           checkOutTimeUTC \in
             ConvertTime(parseDateString(update.checkOutDate), update.checkOutTime) :
          /\ attendance' =
               IF found = 0
               THEN InsertNew(attendance, nextId, RaceUser,
                              DayStartUTC(UpdateKey(update)),
                              checkInTimeUTC, checkOutTimeUTC)
               ELSE IF i # 0
               THEN UpdateExisting(attendance, i, checkInTimeUTC, checkOutTimeUTC)
               ELSE attendance
          /\ nextId' = IF found = 0 THEN nextId + 1 ELSE nextId
  /\ batches' = [batches EXCEPT !.run[s] = IdleBatch]
  /\ UNCHANGED <<pc, req, resp, ops, fails, last, twice>>
  /\ UNCHANGED <<cmpVars, cellVars, uiVars, routeVars, importVars>>

\* "await attendanceCollection.deleteOne(...)" of a date of a delete request
DeleteRecord(s, dateStr) ==
  /\ CanStart(s)
  /\ LET date == parseDateString(dateStr)
     IN attendance' = deleteOne(attendance, RaceUser, DayStartUTC(date), DayEndUTC(date))
  /\ batches' = [batches EXCEPT !.n = @ + 1]
  /\ UNCHANGED nextId
  /\ UNCHANGED <<pc, req, resp, ops, fails, last, twice>>
  /\ UNCHANGED <<cmpVars, cellVars, uiVars, routeVars, importVars>>

NextRace ==
  \E s \in Slots :
    \/ \E update \in RaceUpdates : FindExisting(s, update)
    \/ WriteRecord(s)
    \/ \E dateStr \in RaceDeletes : DeleteRecord(s, dateStr)

SpecRace == InitRace /\ [][NextRace]_vars

\* ------------------------------------------------------------- properties
WellFormedDate(dateStr) == \E i \in 1..Len(DateStrings) : DateStrings[i] = dateStr

\* positions of the records of a user on calendar day d
RecordsOn(coll, user, d) ==
  {i \in 1..Len(coll) : coll[i].user = user /\ DayOf(coll[i].day) = d}

\* the records of a collection that are not of (user, d), in order
RecordsOff(coll, user, d) ==
  LET Off(r) == ~(r.user = user /\ DayOf(r.day) = d) IN SelectSeq(coll, Off)

RowDay(update) == DayIndex(update.date) - 1

DayShift == DayUpdate(D1, D1, T0800, D1, T1700)
Overnight == DayUpdate(D1, D1, T2350, D2, T0010)
Backwards == DayUpdate(D1, D1, T1700, D1, T0800)

\* this step is a loop iteration of POST that applied its entry
AppliedUpdate ==
  ops' = ops + 1 /\ last'.kind = "update" /\ last'.outcome = "ok"

\* this step is a loop iteration of DELETE whose store call did not fail
AppliedDelete ==
  ops' = ops + 1 /\ last'.kind = "delete" /\ last'.outcome = "ok"

\* C1: applying the same update entry a second time in succession leaves the
\* store as the first application left it: one record for (employee, row
\* date), holding one period with the same start, end and totalSeconds
\* (32400 for 08:00 to 17:00 on one date); the period list is replaced, never
\* appended to.
C1_UpdateIdempotent ==
  [][ (AppliedUpdate /\ twice') =>
        /\ attendance' = attendance
        /\ WellFormedDate(last'.entry.date) =>
             LET K == RecordsOn(attendance', last'.user, RowDay(last'.entry))
             IN /\ Cardinality(K) = 1
                /\ \A i \in K :
                     /\ Len(attendance'[i].periods) = 1
                     /\ attendance'[i].periods[1].startTime
                          = BsonDate(last'.checkInTimeUTC)
                     /\ attendance'[i].periods[1].endTime
                          = BsonDate(last'.checkOutTimeUTC)
                     /\ last'.entry = DayShift =>
                          attendance'[i].totalSeconds = Num(32400)
    ]_vars

C1_Witness ==
  /\ twice /\ last.kind = "update" /\ last.entry = DayShift
  /\ \E i \in RecordsOn(attendance, "U1", 0) :
       /\ Len(attendance[i].periods) = 1
       /\ attendance[i].totalSeconds = Num(32400)

\* C2: after every successful update of an (employee, day) record, whatever
\* the record was before, the record has exactly one period carrying the new
\* start and end, and no intervals field.
C2_SinglePeriod ==
  (last.kind = "update" /\ last.outcome = "ok" /\ WellFormedDate(last.entry.date)) =>
    LET K == RecordsOn(attendance, last.user, RowDay(last.entry))
    IN /\ K # {}
       /\ \A i \in K :
            /\ Len(attendance[i].periods) = 1
            /\ attendance[i].periods[1].startTime = BsonDate(last.checkInTimeUTC)
            /\ attendance[i].periods[1].endTime = BsonDate(last.checkOutTimeUTC)
            /\ ~attendance[i].hasIntervals
            /\ attendance[i].intervals = <<>>

\* a legacy record (id 1) rewritten by an update
C2_Witness ==
  /\ last.kind = "update" /\ last.outcome = "ok" /\ last.entry = Overnight
  /\ \E i \in RecordsOn(attendance, "U1", 0) :
       /\ attendance[i].id = 1
       /\ Len(attendance[i].periods) = 1
       /\ ~attendance[i].hasIntervals
       /\ attendance[i].periods[1].checkInLocation = NoLocation

\* C3: the record an update entry looks up or creates is keyed only by the
\* entry's row date: whatever the check-in and check-out dates, only the
\* record of (employee, row date) changes, a record created for it has the
\* row date's midnight as its day, and no other day's record is written.
C3_KeyedByRowDate ==
  [][ (AppliedUpdate /\ WellFormedDate(last'.entry.date)) =>
        LET d == RowDay(last'.entry)
            u == last'.user
        IN /\ RecordsOff(attendance', u, d) = RecordsOff(attendance, u, d)
           /\ Cardinality(RecordsOn(attendance', u, d)) = 1
           /\ RecordsOn(attendance, u, d) = {} =>
                \A i \in RecordsOn(attendance', u, d) :
                  attendance'[i].day = d * MinutesPerDay
           /\ RecordsOn(attendance, u, d) # {} =>
                \A i \in RecordsOn(attendance', u, d) :
                  \E j \in RecordsOn(attendance, u, d) :
                    /\ attendance'[i].id = attendance[j].id
                    /\ attendance'[i].day = attendance[j].day
    ]_vars

\* an overnight entry applied: the check-out instant is on the next Dubai
\* day, the record is the row date's, and the next day has no record
C3_Witness ==
  /\ last.kind = "update" /\ last.outcome = "ok" /\ last.entry = Overnight
  /\ \E i \in RecordsOn(attendance, "U1", 0) :
       DayOf(attendance[i].periods[1].endTime.t + DubaiOffset) = 1
  /\ RecordsOn(attendance, "U1", 1) = {}

\* C4: the persisted totalSeconds is the difference in whole seconds between
\* the check-out and the check-in instant when both are given and it is not
\* negative, and 0 when it is negative or either time is missing; no record
\* carries a negative totalSeconds.
C4_TotalSeconds ==
  /\ \A i \in 1..Len(attendance) :
       attendance[i].totalSeconds.nan \/ attendance[i].totalSeconds.v >= 0
  /\ (last.kind = "update" /\ last.outcome = "ok" /\ WellFormedDate(last.entry.date)) =>
       \A i \in RecordsOn(attendance, last.user, RowDay(last.entry)) :
         LET in == last.checkInTimeUTC
             out == last.checkOutTimeUTC
             total == attendance[i].totalSeconds
         IN /\ (last.entry.checkInTime = NoTime \/ last.entry.checkOutTime = NoTime)
                 => total = Num(0)
            /\ (IsDate(in) /\ IsDate(out) /\ out.t >= in.t)
                 => total = Num((out.t - in.t) * 60)
            /\ (IsDate(in) /\ IsDate(out) /\ out.t < in.t) => total = Num(0)
            /\ last.entry = Overnight => total = Num(1200)
            /\ last.entry = DayShift => total = Num(32400)

\* check-out before check-in: the negative difference is stored as 0
C4_Witness ==
  /\ last.kind = "update" /\ last.outcome = "ok" /\ last.entry = Backwards
  /\ last.checkOutTimeUTC.t < last.checkInTimeUTC.t
  /\ \E i \in RecordsOn(attendance, "U1", 0) : attendance[i].totalSeconds = Num(0)

\* positions of a batch's entries whose row date is malformed
Malformed(outcomes) ==
  {k \in 1..Len(outcomes) : ~WellFormedDate(outcomes[k].date)}

\* positions of a batch's entries with the given outcome
WithOutcome(outcomes, o) == {k \in 1..Len(outcomes) : outcomes[k].outcome = o}

Failures == {"Failed to update", "Failed to delete"}

\* C5: every entry of an update batch whose row date string is malformed
\* adds one message to errors and writes nothing, and the well-formed entries
\* are still applied: three entries of which exactly one has a malformed date
\* give updatedCount = 2 and one error.
C5_MalformedDateRejected ==
  /\ (last.kind = "update" /\ ~WellFormedDate(last.entry.date)) =>
        last.outcome # "ok"
  /\ \A i \in 1..Len(attendance) : attendance[i].day # UnixEpoch
  /\ ( /\ resp.kind = "update" /\ resp.status = 200 /\ resp.n = 3
       /\ Cardinality(Malformed(resp.outcomes)) = 1
       /\ \A k \in 1..Len(resp.outcomes) :
            WellFormedDate(resp.outcomes[k].date) => resp.outcomes[k].outcome = "ok" )
     => (resp.count = 2 /\ Len(resp.errors) = 1)

\* C6: when the store operation of one entry of an update or delete batch
\* fails, the failure is recorded in errors, the entries applied before it
\* stay applied, the entries after it are still processed, and the handler
\* answers with the counts of what succeeded.
C6_PartialFailure ==
  [][ /\ (ops' = ops + 1 /\ last'.outcome \in Failures) =>
           /\ attendance' = attendance
           /\ req'.errors = Append(req.errors, Message(last'.outcome, last'.entry.date))
           /\ req'.count = req.count
           /\ pc' = pc
      /\ (resp' # resp /\ resp'.status = 200) =>
           /\ resp'.idx = resp'.n
           /\ Len(resp'.outcomes) = resp'.n
           /\ Len(resp'.errors) = resp'.n - Cardinality(WithOutcome(resp'.outcomes, "ok"))
           /\ resp'.kind = "update" =>
                resp'.count = Cardinality(WithOutcome(resp'.outcomes, "ok"))
           /\ resp'.kind = "delete" =>
                resp'.count <= Cardinality(WithOutcome(resp'.outcomes, "ok"))
           /\ resp'.success = (Len(resp'.errors) = 0)
    ]_vars

\* a batch of three whose second entry failed in the store: the first and the
\* third are applied and counted
C6_Witness ==
  /\ resp.status = 200 /\ resp.n = 3 /\ resp.count = 2
  /\ resp.outcomes[1].outcome = "ok"
  /\ resp.outcomes[2].outcome \in Failures
  /\ resp.outcomes[3].outcome = "ok"
  /\ Len(resp.errors) = 1
  /\ fails = 1

\* C7: a delete for an (employee, day) key removes the record of that key
\* when there is one and is a no-op otherwise: the store is unchanged, the
\* count is not incremented and no error is recorded; replaying a delete that
\* has been applied changes nothing and reports no error.
C7_DeleteAbsentNoop ==
  [][ /\ ( /\ ops' = ops + 1 /\ last'.kind = "delete"
           /\ WellFormedDate(last'.entry.date) /\ fails' = fails ) =>
           LET d == RowDay(last'.entry)
               u == last'.user
           IN /\ last'.outcome = "ok"
              /\ req'.errors = req.errors
              /\ RecordsOff(attendance', u, d) = RecordsOff(attendance, u, d)
              /\ RecordsOn(attendance', u, d) = {}
              /\ req'.count = req.count
                   + (IF RecordsOn(attendance, u, d) = {} THEN 0 ELSE 1)
              /\ RecordsOn(attendance, u, d) = {} => attendance' = attendance
              /\ twice' => (attendance' = attendance /\ req'.count = req.count)
      /\ (resp' # resp /\ resp'.kind = "delete" /\ resp'.status = 200) =>
           (resp'.count = req.count /\ resp'.errors = req.errors)
    ]_vars

\* a delete batch replayed: the replay found nothing, counted nothing and
\* recorded no error
C7_Witness ==
  /\ resp.kind = "delete" /\ resp.status = 200 /\ resp.n = 1
  /\ twice /\ last.kind = "delete" /\ last.entry.date = D1
  /\ resp.count = 0 /\ resp.errors = <<>> /\ resp.success

\* C8: the single period written over an existing record keeps the check-in
\* location of the previous first period and the check-out location and
\* checkout type of the previous last period ("manual" when it had none) and
\* nothing else; the period of a created record is "manual" with no location.
C8_KeepsLocations ==
  [][ (AppliedUpdate /\ WellFormedDate(last'.entry.date)) =>
        LET d == RowDay(last'.entry)
            u == last'.user
        IN \A i \in RecordsOn(attendance', u, d) :
             LET p == attendance'[i].periods[1]
                 Fresh == /\ p.checkoutType = "manual"
                          /\ p.checkInLocation = NoLocation
                          /\ p.checkOutLocation = NoLocation
             IN /\ attendance'[i].periods
                     = << Period(BsonDate(last'.checkInTimeUTC),
                                 BsonDate(last'.checkOutTimeUTC), p.checkoutType,
                                 p.checkInLocation, p.checkOutLocation) >>
                /\ RecordsOn(attendance, u, d) = {} => Fresh
                /\ \A j \in RecordsOn(attendance, u, d) :
                     LET old == attendance[j].periods
                         n == Len(old)
                     IN IF n = 0 THEN Fresh
                        ELSE /\ p.checkInLocation = old[1].checkInLocation
                             /\ p.checkOutLocation = old[n].checkOutLocation
                             /\ p.checkoutType =
                                  IF old[n].checkoutType = NoType THEN "manual"
                                  ELSE old[n].checkoutType
    ]_vars

\* the two-period legacy record rewritten: check-in location of its first
\* period, check-out location and type of its last
C8_Witness ==
  /\ last.kind = "update" /\ last.outcome = "ok" /\ last.entry = DayShift
  /\ \E i \in RecordsOn(attendance, "U1", 0) :
       /\ attendance[i].id = 1
       /\ Len(attendance[i].periods) = 1
       /\ attendance[i].periods[1].checkInLocation = "locA"
       /\ attendance[i].periods[1].checkOutLocation = "locB"
       /\ attendance[i].periods[1].checkoutType = "auto"

\* a strict HH:mm string and its minute of the day
IsHHmm(s) ==
  /\ Len(s) = 5 /\ s[3] = ":"
  /\ \A i \in {1, 2, 4, 5} : s[i] \in DigitChars
  /\ DigitVal(s[1]) * 10 + DigitVal(s[2]) <= 23
  /\ DigitVal(s[4]) * 10 + DigitVal(s[5]) <= 59

MinuteOfDay(s) ==
  (DigitVal(s[1]) * 10 + DigitVal(s[2])) * 60 + DigitVal(s[4]) * 10 + DigitVal(s[5])

NextDate(dateStr) == DateStrings[DayIndex(dateStr) + 1]

\* C9: for every interval [start, end] with start <= end, every spreadsheet
\* entry sequence (or none) and every attendance record sequence,
\* compareTimeDataForRange returns end - start + 1 rows, one per calendar day
\* of the interval, in ascending date order.
C9_OneRowPerDay ==
  cmpOut.done =>
    LET first == DayOf(cmpIn.startDate.t)
        final == DayOf(cmpIn.endDate.t)
    IN /\ Len(cmpOut.days) = final - first + 1
       /\ \A k \in 1..Len(cmpOut.days) :
            cmpOut.days[k].date = DateStrings[first + k]

\* three days without data in either source, the interval ending exactly at
\* the midnight that starts its last day
C9_Witness ==
  /\ cmpOut.done
  /\ ~cmpIn.xlsxData.present /\ cmpIn.mongoAttendance = <<>>
  /\ cmpIn.startDate = DateAt(720) /\ cmpIn.endDate = DateAt(2 * MinutesPerDay)
  /\ Len(cmpOut.days) = 3

\* C10: for a spreadsheet entry with a check-in and a check-out time, the
\* detected check-out date is the row date when the check-out time of day is
\* later than the check-in time of day and the row date + 1 day when it is
\* earlier or equal; when either time is missing it is the row date.
C10_CheckoutDate ==
  cmpOut.done =>
    \A k \in 1..Len(cmpOut.days) :
      LET row == cmpOut.days[k]
          in == row.xlsx.in1
          out == row.xlsx.out2
      IN /\ row.xlsx.in1Date = row.date
         /\ (in = NoTime \/ out = NoTime) => row.xlsx.out2Date = row.date
         /\ (IsHHmm(in) /\ IsHHmm(out) /\ MinuteOfDay(out) > MinuteOfDay(in))
              => row.xlsx.out2Date = row.date
         /\ (IsHHmm(in) /\ IsHHmm(out) /\ MinuteOfDay(out) <= MinuteOfDay(in))
              => row.xlsx.out2Date = NextDate(row.date)
         /\ (row.date = "01/01/2026" /\ in = T2350 /\ out = T0010)
              => row.xlsx.out2Date = "02/01/2026"
         /\ (in = T0900 /\ out = T1700) => row.xlsx.out2Date = row.date

\* 23:50 / 00:10 on 01/01/2026 resolved to 02/01/2026
C10_Witness ==
  /\ cmpOut.done
  /\ \E k \in 1..Len(cmpOut.days) :
       /\ cmpOut.days[k].date = "01/01/2026"
       /\ cmpOut.days[k].xlsx.in1 = T2350
       /\ cmpOut.days[k].xlsx.out2 = T0010
       /\ cmpOut.days[k].xlsx.out2Date = "02/01/2026"

\* the working tuple a day would have with every value taken from one source
XlsxTuple(day) ==
  DayValues(day.xlsx.in1Date, day.xlsx.in1, day.xlsx.out2Date, day.xlsx.out2)
MongoTuple(day) ==
  DayValues(day.mongo.firstCheckInDate, day.mongo.firstCheckIn,
            day.mongo.lastCheckOutDate, day.mongo.lastCheckOut)

HasXlsxTime(day) == day.xlsx.in1 # NoTime \/ day.xlsx.out2 # NoTime
HasMongoTime(day) == day.mongo.firstCheckIn # NoTime \/ day.mongo.lastCheckOut # NoTime

\* C11: for every aligned day the default selection is the spreadsheet for
\* check-in and check-out when the spreadsheet has a check-in or a check-out
\* time for the day, and the database for both otherwise (a spreadsheet row
\* without times defaults to the database): the selection of the row says so,
\* and the working tuple a table is seeded with holds that source's times and
\* dates.  Days with no value in either source are left out.
C11_DefaultSelection ==
  /\ \A key \in DOMAIN swr.data :
       \A i \in 1..Len(swr.data[key]) :
         LET day == swr.data[key][i]
         IN /\ HasXlsxTime(day) =>
                 day.selection = [checkIn |-> "xlsx", checkOut |-> "xlsx"]
            /\ (~HasXlsxTime(day) /\ HasMongoTime(day)) =>
                 day.selection = [checkIn |-> "mongodb", checkOut |-> "mongodb"]
  /\ (table.mounted /\ edits = 0 /\ table.seed \in DOMAIN swr.data) =>
       \A i \in 1..Len(swr.data[table.seed]) :
         LET day == swr.data[table.seed][i]
             v == table.values[day.date]
         IN /\ HasXlsxTime(day) => v = XlsxTuple(day)
            /\ (~HasXlsxTime(day) /\ HasMongoTime(day)
                  /\ day.mongo.firstCheckIn # NoTime /\ day.mongo.lastCheckOut # NoTime)
                 => v = MongoTuple(day)

\* the other cell of a day row
OtherCell(cell) == IF cell = "checkIn" THEN "checkOut" ELSE "checkIn"

\* C12: a click on a source button of one cell sets that cell's time and date
\* to the time and date of the chosen source, and leaves the time and date of
\* the other cell of the row, and every other row, as they were.
C12_SelectSourceCopiesTimeAndDate ==
  [][ (act'.name = "selectSource" /\ edits' = edits + 1) =>
        LET day == DayAt(DataDays, act'.date)
            p == CellProps(day, act'.cell)
            other == OtherCell(act'.cell)
            before == getValues(table.values, act'.date)
            after == table'.values[act'.date]
        IN /\ after[TimeField(act'.cell)] =
                (IF act'.arg = "xlsx" THEN p.xlsxValue ELSE p.mongoValue)
           /\ after[DateField(act'.cell)] =
                (IF act'.arg = "xlsx" THEN p.xlsxDate ELSE p.mongoDate)
           /\ after[TimeField(other)] = before[TimeField(other)]
           /\ after[DateField(other)] = before[DateField(other)]
           /\ \A d \in DOMAIN table.values \ {act'.date} :
                table'.values[d] = table.values[d] ]_vars

\* a source button was clicked and the cell now carries a date that is not the
\* date of its row: the date came with the time
C12_Witness ==
  /\ act.name = "selectSource"
  /\ table.mounted
  /\ table.values[act.date][TimeField(act.cell)] # NoTime
  /\ table.values[act.date][DateField(act.cell)] # act.date

\* a one-digit hour, a colon and a minute of two digits up to 59
IsHmm(s) ==
  /\ Len(s) = 4 /\ s[2] = ":"
  /\ \A i \in {1, 3, 4} : s[i] \in DigitChars
  /\ DigitVal(s[3]) * 10 + DigitVal(s[4]) <= 59

\* the text of an input that counts as empty: nothing, or the placeholder
IsEmptyText(s) == s = <<>> \/ s = <<"-", "-", ":", "-", "-">>

\* the time of the cell an event ran on, in a working view
CellTime(values, a) == getValues(values, a.date)[TimeField(a.cell)]

\* a blur changes nothing but the time of the cell that had the focus
BlurFrame ==
  /\ \A d \in DOMAIN table.values \ {act'.date} : table'.values[d] = table.values[d]
  /\ \A f \in {"checkInDate", "checkOutDate", TimeField(OtherCell(act'.cell))} :
       getValues(table'.values, act'.date)[f] = getValues(table.values, act'.date)[f]

\* C13 (as stated): when the input of a cell loses the focus, the text is
\* committed only if it is empty or strict HH:mm with hour <= 23 and minute
\* <= 59; any other text leaves the committed time as it was.
C13_StrictTextOnly ==
  [][ (act'.name = "handleBlur" /\ focus # NoFocus) =>
        /\ BlurFrame
        /\ CellTime(table'.values, act') =
             IF IsEmptyText(act'.text) THEN NoTime
             ELSE IF IsHHmm(act'.text) THEN act'.text
             ELSE CellTime(table.values, act') ]_vars

\* C13 (amended): when the input of a cell loses the focus, an empty text
\* clears the time, a text HH:mm or H:mm with hour <= 23 and minute <= 59 is
\* committed as zero-padded HH:mm, and any other text leaves the committed
\* time as it was; so the time of a cell after a blur is its time before, or
\* empty, or a strict HH:mm value.
C13_BlurCommitsValidTime ==
  [][ (act'.name = "handleBlur" /\ focus # NoFocus) =>
        /\ BlurFrame
        /\ CellTime(table'.values, act') =
             IF IsEmptyText(act'.text) THEN NoTime
             ELSE IF IsHHmm(act'.text) THEN act'.text
             ELSE IF IsHmm(act'.text) THEN <<"0">> \o act'.text
             ELSE CellTime(table.values, act')
        /\ \/ CellTime(table'.values, act') = CellTime(table.values, act')
           \/ CellTime(table'.values, act') = NoTime
           \/ IsHHmm(CellTime(table'.values, act')) ]_vars

\* an input holding an hour of 24 lost the focus, and the cell still has the
\* time of the spreadsheet
C13_Witness ==
  /\ act.name = "handleBlur"
  /\ act.text = T2400
  /\ table.mounted
  /\ act.date = D1
  /\ act.cell = "checkIn"
  /\ CellTime(table.values, act) = T0900

\* the minute, counted from the first day of the calendar, of a well-formed
\* date and a strict HH:mm time
MinuteOfCalendar(dateStr, timeStr) ==
  ((CHOOSE i \in 1..Len(DateStrings) : DateStrings[i] = dateStr) - 1) * 24 * 60
    + MinuteOfDay(timeStr)

\* a text h..h:mm, of two hour digits at least, that stands for n minutes
IsDurationOf(text, n) ==
  /\ Len(text) >= 5
  /\ text[Len(text) - 2] = ":"
  /\ AllDigits(SubSeq(text, 1, Len(text) - 3))
  /\ AllDigits(SubSeq(text, Len(text) - 1, Len(text)))
  /\ DecVal(SubSeq(text, Len(text) - 1, Len(text))) < 60
  /\ DecVal(SubSeq(text, 1, Len(text) - 3)) * 60
       + DecVal(SubSeq(text, Len(text) - 1, Len(text))) = n

\* C14: the duration shown for a day row is the span from the check-in
\* (date, time) to the check-out (date, time) of its working tuple, over as
\* many days as lie between them; it is null when either time is missing or
\* the check-out instant is before the check-in instant, and is never a
\* negative or 24-hour-wrapped value.
C14_DurationFromDateTimePairs ==
  table.mounted =>
    \A d \in DOMAIN table.netHours :
      LET v == getValues(table.values, d)
      IN IF v.checkInTime = NoTime \/ v.checkOutTime = NoTime
         THEN table.netHours[d] = NoTime
         ELSE /\ IsHHmm(v.checkInTime) /\ IsHHmm(v.checkOutTime)
              /\ WellFormedDate(v.checkInDate) /\ WellFormedDate(v.checkOutDate)
              /\ LET span == MinuteOfCalendar(v.checkOutDate, v.checkOutTime)
                               - MinuteOfCalendar(v.checkInDate, v.checkInTime)
                 IN IF span < 0 THEN table.netHours[d] = NoTime
                    ELSE IsDurationOf(table.netHours[d], span)

\* one row spans more than a day (09:00 to 17:00 of the next day, 32 hours)
\* and another has its check-out before its check-in and shows no duration
C14_Witness ==
  /\ table.mounted
  /\ \E d \in DOMAIN table.netHours :
       /\ table.netHours[d] = <<"3", "2", ":", "0", "0">>
       /\ getValues(table.values, d).checkOutDate # getValues(table.values, d).checkInDate
  /\ \E d \in DOMAIN table.netHours :
       LET v == getValues(table.values, d)
       IN /\ v.checkInTime # NoTime /\ v.checkOutTime # NoTime
          /\ v.checkInDate = v.checkOutDate
          /\ MinuteOfDay(v.checkOutTime) < MinuteOfDay(v.checkInTime)
          /\ table.netHours[d] = NoTime

\* the dates of a batch of updates
UpdateDates(updates) == {updates[i].date : i \in 1..Len(updates)}

\* C15: a day marked for deletion is never in the update batch that Apply
\* sends: the update batch and the deletion marks of the table it was sent
\* from have no day in common.
C15_UpdateAndDeleteDisjoint ==
  sent.kind = "update" => UpdateDates(sent.updates) \cap sent.marked = {}

\* C16: the working view belongs to the employee and date window on display:
\* the table shown was seeded from the comparison of the current employee
\* and filter, and a batch is sent for the employee and window its table was
\* seeded from.
C16_ViewBelongsToWindow ==
  /\ table.mounted => table.seed = Key(page.employee, page.filter)
  /\ sent.kind # "none" => sent.seed = sent.key

\* a time the conversion is said to accept: one or two hour digits, a colon,
\* two minute digits, hour <= 23 and minute <= 59
IsLocalTime(s) == IsHHmm(s) \/ IsHmm(s)

\* C17: an update whose check-in or check-out time is not \d{1,2}:\d{2}, or
\* has an hour above 23 or a minute above 59, yields no instant for that time
\* (the conversion gives null or the entry fails), so none is written to the
\* attendance store.
C17_BadTimeGivesNoInstant ==
  last.kind = "update" =>
    /\ (last.entry.checkInTime # NoTime /\ ~IsLocalTime(last.entry.checkInTime)) =>
         last.checkInTimeUTC \in {NullDate, Thrown}
    /\ (last.entry.checkOutTime # NoTime /\ ~IsLocalTime(last.entry.checkOutTime)) =>
         last.checkOutTimeUTC \in {NullDate, Thrown}

\* n is num / den * 24 * 60 rounded to the nearest integer, a half upwards
IsRoundedMinutes(n, num, den) ==
  /\ (2 * n - 1) * den <= 2 * num * 24 * 60
  /\ 2 * num * 24 * 60 < (2 * n + 1) * den

\* the cell of the model holds the number num / den and has been decoded
Decoded(num, den) == cellOut.done /\ cellIn = NumberCell(num, den)

\* C18 (as stated): a numeric cell value v is decoded as round(v x 1440)
\* minutes formatted as zero-padded HH:mm, values >= 1 included: 0.5 gives
\* "12:00", 0.0 gives "00:00" and 1.25 gives "06:00".
C18_DecodeAsStated ==
  /\ (cellOut.done /\ cellIn.kind = "number" /\ cellIn.num >= 0) =>
       \E n \in 0..(MaxCell + 1) * 24 * 60 :
         /\ IsRoundedMinutes(n, cellIn.num, cellIn.den)
         /\ IsDurationOf(cellOut.text, n)
  /\ Decoded(32, 64) => cellOut.text = <<"1", "2", ":", "0", "0">>
  /\ Decoded(0, 64) => cellOut.text = <<"0", "0", ":", "0", "0">>
  /\ Decoded(80, 64) => cellOut.text = <<"0", "6", ":", "0", "0">>

\* C18 (amended): a numeric cell value v >= 0 is decoded as round(v x 1440)
\* minutes written as hours, zero-padded to two digits and not reduced modulo
\* 24, a colon and two minute digits, values >= 1 included: 0.5 gives
\* "12:00", 0.0 gives "00:00" and 1.25 gives "30:00".
C18_DecodeElapsed ==
  /\ (cellOut.done /\ cellIn.kind = "number" /\ cellIn.num >= 0) =>
       \E n \in 0..(MaxCell + 1) * 24 * 60 :
         /\ IsRoundedMinutes(n, cellIn.num, cellIn.den)
         /\ IsDurationOf(cellOut.text, n)
  /\ Decoded(32, 64) => cellOut.text = <<"1", "2", ":", "0", "0">>
  /\ Decoded(0, 64) => cellOut.text = <<"0", "0", ":", "0", "0">>
  /\ Decoded(80, 64) => cellOut.text = <<"3", "0", ":", "0", "0">>

\* the cell holding 1.25 has been decoded, to 30 hours
C18_Witness == Decoded(80, 64) /\ cellOut.text = <<"3", "0", ":", "0", "0">>

\* the rows of the comparison that was computed
CmpRows == {cmpOut.days[i] : i \in 1..Len(cmpOut.days)}

\* C19: for every aligned day, lowHours is true exactly when the spreadsheet's
\* net work hours is at least 3 hours and less than 4 hours: "03:30" gives
\* true, "04:00" and "02:59" give false, and a missing value gives false.
C19_LowHours ==
  cmpOut.done =>
    \A row \in CmpRows :
      LET net == row.xlsx.netWorkHours
      IN /\ net = NoTime => ~row.discrepancies.lowHours
         /\ IsHHmm(net) =>
              (row.discrepancies.lowHours <=>
                 (3 * 60 <= MinuteOfDay(net) /\ MinuteOfDay(net) < 4 * 60))
         /\ net = <<"0", "3", ":", "3", "0">> => row.discrepancies.lowHours
         /\ net = <<"0", "4", ":", "0", "0">> => ~row.discrepancies.lowHours
         /\ net = <<"0", "2", ":", "5", "9">> => ~row.discrepancies.lowHours

\* a comparison with a row of 03:30 net work hours that is flagged and a row
\* of 04:00 that is not
C19_Witness ==
  /\ cmpOut.done
  /\ \E row \in CmpRows :
       row.xlsx.netWorkHours = <<"0", "3", ":", "3", "0">> /\ row.discrepancies.lowHours
  /\ \E row \in CmpRows :
       row.xlsx.netWorkHours = <<"0", "4", ":", "0", "0">> /\ ~row.discrepancies.lowHours

\* the issue of each flag, in the order of the flags
IssueTexts ==
  << "XLSX has check-in but MongoDB is missing",
     "XLSX has check-out but MongoDB is missing",
     "Net work hours between 3-4 hours - verify with MongoDB" >>

\* the flags of a row in the order check-in missing, check-out missing, low hours
FlagsOf(row) ==
  << row.discrepancies.in1Missing, row.discrepancies.out2Missing,
     row.discrepancies.lowHours >>

RouteWellFormed ==
  /\ routeIn.dateRange # BadDate
  /\ routeIn.startDate # BadDate
  /\ routeIn.endDate # BadDate

\* every day of the response carries no database field
SpreadsheetOnly(days) == \A i \in 1..Len(days) : days[i].mongo = EmptyMongoDay

\* C21: when the attendance store cannot be reached while the comparison of
\* an employee the spreadsheet knows is built, the request succeeds with a
\* spreadsheet-only view (database fields null); it never fails as a whole.
C21_StoreDownStillSucceeds ==
  (routeOut.done /\ routeIn.xlsx = "known" /\ routeIn.fail = "all"
     /\ RouteWellFormed)
    => (routeOut.status = 200 /\ SpreadsheetOnly(routeOut.days))

\* the day of the earliest attendance record of the user
EarliestRecordDay(records) ==
  CHOOSE d \in {records[i].day : i \in 1..Len(records)} :
    \A j \in 1..Len(records) : d <= records[j].day

\* C22: in every answered comparison the earliest bound is the joining date
\* when the user has one; otherwise the first date of the spreadsheet when it
\* has a date range; otherwise the day of the earliest attendance record;
\* otherwise today. The latest bound is always today.
C22_EarliestByPriority ==
  (routeOut.done /\ routeOut.status = 200) =>
    LET todayStr == DateStrings[DayOf(routeIn.now) + 1]
        hasJoining == routeIn.user # "none" /\ routeIn.joining # NullDate
    IN /\ routeOut.latest = todayStr
       /\ routeOut.earliest =
            IF hasJoining THEN DateStrings[DayOf(routeIn.joining.t) + 1]
            ELSE IF routeIn.dateRange # NoRange THEN routeIn.dateRange
            ELSE IF routeIn.user # "none" /\ routeIn.records # <<>>
            THEN DateStrings[DayOf(EarliestRecordDay(routeIn.records)) + 1]
            ELSE todayStr
       /\ routeOut.earliestSource =
            IF hasJoining THEN "dateOfJoining"
            ELSE IF routeIn.dateRange # NoRange THEN "xlsx"
            ELSE IF routeIn.user # "none" THEN "earliestRecord"
            ELSE "xlsx"

\* a joining date won over a spreadsheet range and over attendance records
C22_Witness ==
  /\ routeOut.done /\ routeOut.status = 200
  /\ routeIn.user # "none" /\ routeIn.joining # NullDate
  /\ routeIn.dateRange = D3 /\ routeIn.records # <<>>
  /\ routeOut.earliestSource = "dateOfJoining"
  /\ routeOut.earliest = D2

\* C23: the comparison answers 404 when neither source knows the employee, 400
\* when the spreadsheet was never loaded and there is no database fallback, and
\* a comparison whenever at least one source knows the employee.
C23_NotLoadedIs400 ==
  (routeOut.done /\ routeIn.fail = "none" /\ RouteWellFormed) =>
    routeOut.status =
      IF routeIn.xlsx = "known" \/ routeIn.user # "none" THEN 200
      ELSE IF routeIn.xlsx = "notLoaded" THEN 400
      ELSE 404

\* the position of a dd/MM/yyyy string in the calendar
DayNumber(dateStr) == CHOOSE i \in 1..Len(DateStrings) : DateStrings[i] = dateStr

\* C30: in every answered comparison, whatever the mode and the parameters,
\* queryStart <= queryEnd and every day returned lies between
\* dateBounds.earliest and dateBounds.latest.
C30_DaysWithinBounds ==
  (routeOut.done /\ routeOut.status = 200) =>
    /\ routeOut.queryStart.t <= routeOut.queryEnd.t
    /\ \A i \in 1..Len(routeOut.days) :
         /\ DayNumber(routeOut.earliest) <= DayNumber(routeOut.days[i].date)
         /\ DayNumber(routeOut.days[i].date) <= DayNumber(routeOut.latest)

Occurrences(seq, x) == Cardinality({i \in 1..Len(seq) : seq[i] = x})

\* C24: suspect-day markers are a set per (employee, date): after add(e, d)
\* the list of e holds d exactly once, however often it is repeated; after
\* remove(e, d) the list of e does not hold d, and removing an absent marker
\* changes nothing; the count of an employee is the number of distinct dates
\* in its list.
C24_SuspectDaysAreASet ==
  /\ impLog.last.op = "markDayAsSuspect" =>
       Occurrences(impLog.last.after, impLog.last.key[2]) = 1
  /\ impLog.last.op = "unmarkDayAsSuspect" =>
       /\ Occurrences(impLog.last.after, impLog.last.key[2]) = 0
       /\ (Occurrences(impLog.last.before, impLog.last.key[2]) = 0
             => impLog.last.after = impLog.last.before)
  /\ \A e \in {"E1", "E2"} :
       LET dates == getSuspectDaysForEmployee(imports, e)
       IN getSuspectDaysCounts(imports, e)
            = Cardinality({dates[i] : i \in 1..Len(dates)})

C28_NoStaleRead ==
  impLog.last.op = "loadFromMongo" => impLog.last.returned \in impLog.last.ok

\* C29: saving the import leaves at most one document in the collection under
\* every interleaving of saves, and once a first save has returned a read of
\* the collection finds a document.
C29_OneImportDocument ==
  /\ Len(imports) <= 1
  /\ impLog.saved => imports # <<>>

\* C27: starting with at most one attendance record per (employee, day), every
\* interleaving of update and delete requests, two concurrent updates of the
\* same row date included, leaves at most one record per (employee, day).
C27_OneRecordPerDay ==
  \A i, j \in 1..Len(attendance) :
    (i # j /\ attendance[i].user = attendance[j].user)
      => DayOf(attendance[i].day) # DayOf(attendance[j].day)

\* the attendance record behind a day of the comparison of an employee
RecordOf(employeeId, dateStr) ==
  LET records == UiMongo(employeeId)
  IN records[CHOOSE i \in 1..Len(records) :
               formatDateString(DateAt(records[i].day)) = dateStr]

\* C26: a seeded time carries the date of the source it was taken from, so
\* committing a day whose tuple was seeded from the database and never edited
\* sends the database's own dates and leaves the record's check-in and
\* check-out instants and its totalSeconds as they were.
C26_UneditedCommitKeepsRecord ==
  (sent.kind = "update" /\ act.name = "handleApplyAll" /\ edits = 1
     /\ sent.seed = sent.key) =>
    \A i \in 1..Len(sent.updates) :
      LET u == sent.updates[i]
          day == DayAt(ComparisonDays(sent.key), u.date)
          rec == RecordOf(sent.employeeId, u.date)
          checkIn == ConvertTime(parseDateString(u.checkInDate), u.checkInTime)
          checkOut == ConvertTime(parseDateString(u.checkOutDate), u.checkOutTime)
      IN (~HasXlsxTime(day) /\ HasMongoTime(day)) =>
           /\ u.checkInDate = day.mongo.firstCheckInDate
           /\ u.checkOutDate = day.mongo.lastCheckOutDate
           /\ checkIn = {rec.periods[1].startTime}
           /\ checkOut = {rec.periods[Len(rec.periods)].endTime}
           /\ \A a \in checkIn, b \in checkOut : TotalSeconds(a, b) = rec.totalSeconds

====
